---- MODULE Spec2Model ----
(***************************************************************************)
(* Route recommendation engine of travel_agent.                            *)
(*                                                                         *)
(*   RouteRecommender          app/core/recommender.py                     *)
(*   AdvancedRouteRecommender  app/core/advanced_recommender.py            *)
(*                                                                         *)
(* Numbers.  The code computes with Python floats; the model computes with *)
(* integers in fixed units, chosen so that the code's arithmetic is exact  *)
(* or floored at a resolution far below every comparison made here:        *)
(*   distance   hectometres (0.1 km)                                       *)
(*   duration   1/800 hour   (distance_km / 80 h  = distance_hm / 800 h)   *)
(*   cost       1/20 toman   (distance_km * 0.5   = distance_hm / 20)      *)
(*   population thousands of inhabitants                                   *)
(*   weight     tenths                                                     *)
(*   sub-score  1e-5, score 1e-6 (RouteRecommender)                        *)
(*   score      1e-7 (AdvancedRouteRecommender)                            *)
(* An optional value (Python None or a value) is the empty set or a        *)
(* singleton.                                                              *)
(***************************************************************************)
EXTENDS Integers, Sequences, FiniteSets, TLC

VARIABLES
    cities_data,       \* RouteRecommender.cities_data: list of city dicts
    attractions_data,  \* RouteRecommender.attractions_data: list of attraction dicts
    rr_call,           \* arguments of the last recommend_routes call (none yet: {})
    rr_sorted,         \* its local list `routes` after the sort, before the filters
    rr_result,         \* the list it returned
    route_segments,    \* rows of the route_segments table read by AdvancedRouteRecommender
    ml_model,          \* AdvancedRouteRecommender.ml_model ({}: None)
    adv_call,          \* arguments of the last AdvancedRouteRecommender.recommend_routes call
    adv_combinations,  \* routes built by _generate_route_combinations in that call
    adv_result,        \* the list it returned
    rr_first,          \* the first recommend_routes call a caller kept: arguments and list
    threads,           \* recommend_routes calls running in parallel: their local variables
    rr_intermediate,   \* the list _find_intermediate_cities returned to the last call
    http_response,     \* what the last request handler of app/api/routes.py answered
    chat_contexts,     \* AdvancedChatService.chat_contexts: user_id -> ChatContext
    chat_call,         \* the last operation on the chat service and what it returned
    active_connections,\* app/api/chat.py active_connections: user_id -> websocket
    websockets         \* the websocket_endpoint handlers started so far

rr_vars == <<cities_data, attractions_data, rr_call, rr_sorted, rr_result>>
adv_vars == <<route_segments, ml_model, adv_call, adv_combinations, adv_result>>
handler_vars == <<rr_intermediate, http_response>>
chat_vars == <<chat_contexts, chat_call, active_connections, websockets>>
aux_vars == <<rr_first, threads, handler_vars, chat_vars>>
vars == <<cities_data, attractions_data, rr_call, rr_sorted, rr_result,
          route_segments, ml_model, adv_call, adv_combinations, adv_result,
          rr_first, threads, rr_intermediate, http_response,
          chat_contexts, chat_call, active_connections, websockets>>

(***************************************************************************)
(* Bounds of the model.                                                    *)
(***************************************************************************)
NumCities == 3
MaxSegments == 3

(***************************************************************************)
(* Generic helpers.                                                        *)
(***************************************************************************)
None == {}
Some(v) == {v}
TheValue(o) == CHOOSE v \in o : TRUE

Min(a, b) == IF a <= b THEN a ELSE b
Max(a, b) == IF a >= b THEN a ELSE b

\* s[:n]
Prefix(s, n) == SubSeq(s, 1, Min(n, Len(s)))

\* list.sort(key=...), which is stable: before[i][j] says that the key of s[i]
\* sorts strictly before the key of s[j]; elements with equal keys keep their order
SortRank(s, before, i) ==
    1 + Cardinality({j \in 1..Len(s) : before[j][i] \/ (~before[i][j] /\ j < i)})

StableSort(s, before) ==
    LET list == s
        order == before
        rank == [i \in 1..Len(list) |-> SortRank(list, order, i)]
    IN  [k \in 1..Len(list) |-> list[CHOOSE i \in 1..Len(list) : rank[i] = k]]

(***************************************************************************)
(* settings (app/core/config.py)                                           *)
(***************************************************************************)
max_routes_per_request == 5

(***************************************************************************)
(* Geography.  calculate_distance is the haversine formula; it is          *)
(* tabulated here on the coordinates the model uses (degrees), in          *)
(* hectometres, as the code computes it (rounded to the hectometre).       *)
(***************************************************************************)
GridPoints ==
    << <<0, 0>>, <<0, 2>>, <<1, 1>>, <<1, 2>>, <<1, 3>>, <<2, 2>>, <<1, 0>>,
       <<6, 0>>, <<6, 1>>, <<9, 9>>, <<9, 10>>, <<14, 23>>, <<18, 21>>,
       <<1, 5>>, <<3, 3>>, <<4, 3>> >>

\* the coordinates a catalog city of the model may have
Places == { <<0, 2>>, <<1, 1>>, <<1, 2>>, <<1, 3>> }

HaversineHm ==
    << <<    0,  2224,  1572,  2486,  3516,  3145,  1112,  6672,  6763, 14124, 14926, 29719, 30457,  5670,  4717,  5558>>,
       << 2224,     0,  1572,  1112,  1572,  2224,  2486,  7031,  6763, 12658, 13365, 27868, 28846,  3516,  3516,  4584>>,
       << 1572,  1572,     0,  1112,  2224,  1572,  1112,  5669,  5560, 12551, 13355, 28185, 28887,  4447,  3144,  4008>>,
       << 2486,  1112,  1112,     0,  1112,  1112,  2224,  5986,  5669, 11796, 12551, 27247, 28070,  3335,  2486,  3516>>,
       << 3516,  1572,  2224,  1112,     0,  1572,  3335,  6480,  5986, 11101, 11796, 26321, 27273,  2224,  2224,  3336>>,
       << 3145,  2224,  1572,  1112,  1572,     0,  2486,  4970,  4584, 10979, 11785, 26656, 27317,  3515,  1572,  2486>>,
       << 1112,  2486,  1112,  2224,  3335,  2486,     0,  5560,  5669, 13355, 14200, 29135, 29721,  5559,  4007,  4715>>,
       << 6672,  7031,  5669,  5986,  6480,  4970,  5560,     0,  1106, 10466, 11517, 26685, 26407,  7854,  4710,  3998>>,
       << 6763,  6763,  5560,  5669,  5986,  4584,  5669,  1106,     0,  9428, 10466, 25657, 25477,  7114,  4005,  3139>>,
       <<14124, 12658, 12551, 11796, 11101, 10979, 13355, 10466,  9428,     0,  1098, 16230, 16372,  9936,  9407,  8650>>,
       <<14926, 13365, 13355, 12551, 11796, 11785, 14200, 11517, 10466,  1098,     0, 15211, 15532, 10476, 10217,  9523>>,
       <<29719, 27868, 28185, 27247, 26321, 26656, 29135, 26685, 25657, 16230, 15211,     0,  4935, 24513, 25133, 24590>>,
       <<30457, 28846, 28887, 28070, 27273, 27317, 29721, 26407, 25477, 16372, 15532,  4935,     0, 25743, 25748, 25022>>,
       << 5670,  3516,  4447,  3335,  2224,  3515,  5559,  7854,  7114,  9936, 10476, 24513, 25743,     0,  3144,  4008>>,
       << 4717,  3516,  3144,  2486,  2224,  1572,  4007,  4710,  4005,  9407, 10217, 25133, 25748,  3144,     0,  1112>>,
       << 5558,  4584,  4008,  3516,  3336,  2486,  4715,  3998,  3139,  8650,  9523, 24590, 25022,  4008,  1112,     0>> >>

GridIndex(lat, lng) == CHOOSE i \in 1..Len(GridPoints) : GridPoints[i] = <<lat, lng>>

calculate_distance(lat1, lng1, lat2, lng2) ==
    HaversineHm[GridIndex(lat1, lng1)][GridIndex(lat2, lng2)]

\* the middles of two places of latitude 1, in half degrees
LinePoints == << <<2, 2>>, <<2, 3>>, <<2, 4>>, <<2, 5>>, <<2, 6>> >>

\* calculate_distance between the points of LinePoints, in hectometres
MidpointHm ==
    << <<0,    556,  1112, 1668, 2224>>,
       <<556,  0,    556,  1112, 1668>>,
       <<1112, 556,  0,    556,  1112>>,
       <<1668, 1112, 556,  0,    556>>,
       <<2224, 1668, 1112, 556,  0>> >>

LineIndex(point) == CHOOSE i \in 1..Len(LinePoints) : LinePoints[i] = point

\* _distance_from_line: the distance of the point to the middle of the line
distance_from_line(point_lat, point_lng, line_lat1, line_lng1, line_lat2, line_lng2) ==
    MidpointHm[LineIndex(<<2 * point_lat, 2 * point_lng>>)]
              [LineIndex(<<line_lat1 + line_lat2, line_lng1 + line_lng2>>)]

(***************************************************************************)
(* The catalog.  City names are unique (the catalog is keyed by name); a   *)
(* request names a city in any letter case.                                *)
(***************************************************************************)
CityNames == <<"Qom", "yazd", "karaj", "ahvaz", "rasht", "kashan">>

LowerTable == [Qom |-> "qom", Yazd |-> "yazd", Karaj |-> "karaj"]

\* str.lower()
Lower(s) == IF s \in DOMAIN LowerTable THEN LowerTable[s] ELSE s

RequestNames == {"qom", "Yazd", "Karaj", "nowhere"}
                    \cup {CityNames[i] : i \in 4..NumCities}

\* a city dict of cities.json; "population" is optional (city.get("population", 0)),
\* "detour_ratio" is absent until _find_intermediate_cities stores it
City(name, place, population) ==
    [name |-> name, lat |-> place[1], lng |-> place[2],
     population |-> population, detour_ratio |-> None]

\* the population (thousands) the catalogs of the model give the i-th city
PopulationOf(i) == IF i = 2 THEN Some(3000) ELSE None

Catalogs ==
    { [i \in 1..NumCities |-> City(CityNames[i], pl[i], PopulationOf(i))] :
        pl \in [1..NumCities -> Places] }

\* an attraction dict of attractions.json; "distance_from_route" is absent until
\* get_attractions_near_route stores it
Attraction(name, city, place) ==
    [name |-> name, city |-> city, lat |-> place[1], lng |-> place[2],
     distance_from_route |-> None]

\* attractions.json: the second city has 2 attractions, the third has 11
AttractionList ==
    [k \in 1..13 |-> IF k <= 2 THEN Attraction(k, CityNames[2], <<1, 2>>)
                                ELSE Attraction(k, CityNames[3], <<1, 1>>)]

(***************************************************************************)
(* RouteRecommender                                                        *)
(***************************************************************************)
\* a lookup that falls back on the first city of the catalog
find_city_coordinates_fallback(cities, city_name) ==
    LET hits == {i \in 1..Len(cities) : Lower(cities[i].name) = Lower(city_name)}
        i == IF hits = {} THEN 1 ELSE CHOOSE i \in hits : \A j \in hits : i <= j
    IN  Some(<<cities[i].lat, cities[i].lng>>)

\* find_city_coordinates: the first city whose lowered name is the lowered
\* argument, as Some(<<lat, lng>>); None for (None, None)
find_city_coordinates(cities, city_name) ==
    LET hits == {i \in 1..Len(cities) : Lower(cities[i].name) = Lower(city_name)}
    IN  IF hits = {} THEN None
        ELSE LET i == CHOOSE i \in hits : \A j \in hits : i <= j
             IN  Some(<<cities[i].lat, cities[i].lng>>)

\* Python truth of a number or None
Truthy(o) == o # None /\ o # Some(0)

\* all([origin_lat, origin_lng, dest_lat, dest_lng])
AllCoordinates(o, d) ==
    /\ o # None /\ d # None
    /\ Truthy(Some(TheValue(o)[1])) /\ Truthy(Some(TheValue(o)[2]))
    /\ Truthy(Some(TheValue(d)[1])) /\ Truthy(Some(TheValue(d)[2]))

\* route.get("population", 0) and the like
GetOr(o, default) == IF o = None THEN default ELSE TheValue(o)

\* the four sub-scores of get_route_score, in 1e-5
speed_score(route) == (100000 * 1000) \div (1000 + route.distance)
cost_score(route) == (100000 * 20000) \div (20000 + route.cost)
scenic_score(route) == Min(Len(route.attractions) * 10000, 100000)
quiet_score(route) == (100000 * 1000) \div (1000 + route.population)

Weighted(preferences, key, sub) ==
    IF key \in DOMAIN preferences THEN preferences[key] * sub ELSE 0

\* get_route_score, in 1e-6: the weighted sum, returned as it is
get_route_score(route, preferences) ==
    Weighted(preferences, "fastest", speed_score(route))
    + Weighted(preferences, "cheapest", cost_score(route))
    + Weighted(preferences, "scenic", scenic_score(route))
    + Weighted(preferences, "quiet", quiet_score(route))

\* detour_ratio < 1.5 for the ratio num/den
RatioBelowLimit(num, den) == 2 * num < 3 * den

\* a test that compares with <= where the code compares with <
IsIntermediateNonStrict(city, o, d) ==
    LET dist_from_origin == calculate_distance(o[1], o[2], city.lat, city.lng)
        dist_to_dest == calculate_distance(city.lat, city.lng, d[1], d[2])
        direct_dist == calculate_distance(o[1], o[2], d[1], d[2])
    IN  /\ dist_from_origin <= direct_dist
        /\ dist_to_dest <= direct_dist
        /\ RatioBelowLimit(dist_from_origin + dist_to_dest, direct_dist)

\* a test without the limit on the detour ratio
IsIntermediateAnyDetour(city, o, d) ==
    LET dist_from_origin == calculate_distance(o[1], o[2], city.lat, city.lng)
        dist_to_dest == calculate_distance(city.lat, city.lng, d[1], d[2])
        direct_dist == calculate_distance(o[1], o[2], d[1], d[2])
    IN  /\ dist_from_origin < direct_dist
        /\ dist_to_dest < direct_dist

\* the test of _find_intermediate_cities on one city
IsIntermediate(city, o, d) ==
    LET dist_from_origin == calculate_distance(o[1], o[2], city.lat, city.lng)
        dist_to_dest == calculate_distance(city.lat, city.lng, d[1], d[2])
        direct_dist == calculate_distance(o[1], o[2], d[1], d[2])
    IN  /\ dist_from_origin < direct_dist
        /\ dist_to_dest < direct_dist
        /\ RatioBelowLimit(dist_from_origin + dist_to_dest, direct_dist)

\* the detour ratio, as the pair <<numerator, denominator>>
DetourRatio(city, o, d) ==
    << calculate_distance(o[1], o[2], city.lat, city.lng)
         + calculate_distance(city.lat, city.lng, d[1], d[2]),
       calculate_distance(o[1], o[2], d[1], d[2]) >>

\* cities_data after the loop of _find_intermediate_cities: every accepted
\* city dict carries its detour_ratio
AnnotateCities(cities, o, d) ==
    [i \in 1..Len(cities) |->
        IF IsIntermediate(cities[i], o, d)
        THEN [cities[i] EXCEPT !.detour_ratio = Some(DetourRatio(cities[i], o, d))]
        ELSE cities[i]]

\* the order of the keys x["detour_ratio"]
RatioLess(a, b) ==
    LET x == TheValue(a.detour_ratio)
        y == TheValue(b.detour_ratio)
    IN  x[1] * y[2] < y[1] * x[2]

\* a list left in the order of the catalog
SortByDetourSkipped(list) == list

\* intermediate_cities.sort(key=lambda x: x["detour_ratio"])
SortByDetour(list) ==
    StableSort(list, [i \in 1..Len(list) |->
                         [j \in 1..Len(list) |-> RatioLess(list[i], list[j])]])

\* _find_intermediate_cities: the accepted city dicts, sorted by detour_ratio
find_intermediate_cities(cities, o, d) ==
    LET annotated == AnnotateCities(cities, o, d)
        accepted == SelectSeq(annotated, LAMBDA c : IsIntermediate(c, o, d))
    IN  SortByDetour(accepted)

DirectRoute(cities, origin, destination, preferences) ==
    LET o == TheValue(find_city_coordinates(cities, origin))
        d == TheValue(find_city_coordinates(cities, destination))
        direct_distance == calculate_distance(o[1], o[2], d[1], d[2])
        route == [type |-> "direct",
                  distance |-> direct_distance,
                  duration |-> direct_distance,
                  cost |-> direct_distance,
                  attractions |-> << >>,
                  population |-> 0,
                  segments |-> << [origin |-> origin, destination |-> destination] >>,
                  intermediate_city |-> None,
                  score |-> 0]
    IN  [route EXCEPT !.score = get_route_score(route, preferences)]

\* _create_route_with_stops
create_route_with_stops(cities, attractions, origin, destination, intermediate_city, preferences) ==
    LET found == SelectSeq(attractions, LAMBDA a : a.city = intermediate_city.name)
        o == TheValue(find_city_coordinates(cities, origin))
        d == TheValue(find_city_coordinates(cities, destination))
        dist1 == calculate_distance(o[1], o[2], intermediate_city.lat, intermediate_city.lng)
        dist2 == calculate_distance(intermediate_city.lat, intermediate_city.lng, d[1], d[2])
        total_distance == dist1 + dist2
        route == [type |-> "with_stops",
                  distance |-> total_distance,
                  duration |-> total_distance + Len(found) * 1600,
                  cost |-> total_distance + Len(found) * 1000,
                  attractions |-> found,
                  population |-> GetOr(intermediate_city.population, 0),
                  segments |-> << [origin |-> origin,
                                   destination |-> intermediate_city.name],
                                  [origin |-> intermediate_city.name,
                                   destination |-> destination] >>,
                  intermediate_city |-> Some(intermediate_city.name),
                  score |-> 0]
    IN  [route EXCEPT !.score = get_route_score(route, preferences)]

\* a list left in the order it was built in
SortByScoreSkipped(list) == list

\* a descending sort that puts the later of two equal scores first
SortByScoreTiesReversed(list) ==
    LET ascending == StableSort(list, [i \in 1..Len(list) |->
                         [j \in 1..Len(list) |-> list[i].score < list[j].score]])
    IN  [k \in 1..Len(list) |-> ascending[Len(list) + 1 - k]]

\* routes.sort(key=lambda x: x["score"], reverse=True)
SortByScore(list) ==
    StableSort(list, [i \in 1..Len(list) |->
                         [j \in 1..Len(list) |-> list[i].score > list[j].score]])

\* recommend_routes, lines 136-160, for the list _find_intermediate_cities
\* returned: the direct route and a route through each of the first three cities
\* of the list, sorted by score (descending, stable)
RoutesThrough(cities, attractions, origin, destination, preferences, found_cities) ==
    LET intermediate_cities == Prefix(found_cities, 3)
        with_stops == [k \in 1..Len(intermediate_cities) |->
                          create_route_with_stops(cities, attractions, origin,
                              destination, intermediate_cities[k], preferences)]
        routes == <<DirectRoute(cities, origin, destination, preferences)>>
                      \o with_stops
    IN  SortByScore(routes)

\* recommend_routes, lines 136-160: the generated candidates, sorted by score
\* (descending, stable)
SortedRoutes(cities, attractions, origin, destination, preferences) ==
    LET o == TheValue(find_city_coordinates(cities, origin))
        d == TheValue(find_city_coordinates(cities, destination))
    IN  RoutesThrough(cities, attractions, origin, destination, preferences,
                      find_intermediate_cities(cities, o, d))

\* if budget: routes = [r for r in routes if r["cost"] <= budget]
BudgetFilter(routes, budget) ==
    IF Truthy(budget)
    THEN SelectSeq(routes, LAMBDA r : r.cost <= TheValue(budget) * 20)
    ELSE routes

\* if duration_days: routes = [r for r in routes if r["duration"] <= duration_days * 24]
DurationFilter(routes, duration_days) ==
    IF Truthy(duration_days)
    THEN SelectSeq(routes, LAMBDA r : r.duration <= TheValue(duration_days) * 24 * 800)
    ELSE routes

Resolved(cities, origin, destination) ==
    AllCoordinates(find_city_coordinates(cities, origin),
                   find_city_coordinates(cities, destination))

\* get_attractions_near_route, the inner loop: the distance of the first segment
\* of the route whose middle is within max_distance of the attraction, None when
\* the loop ends without a break
NearDistance(cities, attraction, route, max_distance) ==
    LET dists == [g \in 1..Len(route.segments) |->
                     LET o == find_city_coordinates(cities, route.segments[g].origin)
                         d == find_city_coordinates(cities, route.segments[g].destination)
                     IN  IF AllCoordinates(o, d)
                         THEN Some(distance_from_line(attraction.lat, attraction.lng,
                                       TheValue(o)[1], TheValue(o)[2],
                                       TheValue(d)[1], TheValue(d)[2]))
                         ELSE None]
        near == {g \in 1..Len(dists) :
                    dists[g] # None /\ TheValue(dists[g]) <= max_distance}
    IN  IF near = {} THEN None
        ELSE dists[CHOOSE g \in near : \A h \in near : g <= h]

\* attractions_data after get_attractions_near_route: every attraction near the
\* route carries its distance_from_route
MarkAttractions(cities, attractions, route, max_distance) ==
    [k \in 1..Len(attractions) |->
        LET dist == NearDistance(cities, attractions[k], route, max_distance)
        IN  IF dist # None
            THEN [attractions[k] EXCEPT !.distance_from_route = dist]
            ELSE attractions[k]]

(***************************************************************************)
(* Requests (RecommendationRequest, RouteRequest of app/schemas.py):       *)
(* preferences is any map from names to numbers, budget any number or      *)
(* None, duration_days any integer or None.                                *)
(***************************************************************************)
EmptyPreferences == [k \in {} |-> 0]

\* settings.default_route_preferences, the default of RecommendationRequest
default_route_preferences == [fastest |-> 3, cheapest |-> 3, scenic |-> 2, quiet |-> 2]

PreferenceChoices ==
    {EmptyPreferences, default_route_preferences, [quiet |-> 60], [scenic |-> -10]}

\* toman
BudgetChoices == {None, Some(0), Some(100)}

DurationChoices == {None, Some(0), Some(1)}

(***************************************************************************)
(* Operations of the RouteRecommender singleton of app/api/routes.py.      *)
(***************************************************************************)
\* what recommender.recommend_routes(origin, destination, preferences, budget,
\* duration_days) does to the recommender, and what it returns
RecommendRoutesEffect(origin, destination, preferences, budget, duration_days) ==
    /\ rr_call = None
    /\ rr_call' = Some([origin |-> origin, destination |-> destination,
                        preferences |-> preferences, budget |-> budget,
                        duration_days |-> duration_days])
    /\ IF ~Resolved(cities_data, origin, destination)
       THEN /\ rr_sorted' = << >>
            /\ rr_result' = << >>
            /\ UNCHANGED cities_data
       ELSE LET o == TheValue(find_city_coordinates(cities_data, origin))
                d == TheValue(find_city_coordinates(cities_data, destination))
                routes == SortedRoutes(cities_data, attractions_data, origin,
                                       destination, preferences)
            IN  /\ cities_data' = AnnotateCities(cities_data, o, d)
                /\ rr_sorted' = routes
                /\ rr_result' = Prefix(DurationFilter(BudgetFilter(routes, budget),
                                                      duration_days),
                                       max_routes_per_request)
    /\ UNCHANGED <<attractions_data, adv_vars, threads, chat_vars>>

\* recommender.recommend_routes(origin, destination, preferences, budget, duration_days)
RecommendRoutes(origin, destination, preferences, budget, duration_days) ==
    /\ RecommendRoutesEffect(origin, destination, preferences, budget, duration_days)
    /\ UNCHANGED <<rr_first, handler_vars>>

\* the same call, made by a caller who keeps the arguments and a copy of the list
\* of the first call
KeptRecommendRoutes(origin, destination, preferences, budget, duration_days) ==
    /\ RecommendRoutesEffect(origin, destination, preferences, budget, duration_days)
    /\ rr_first' = IF rr_first = None
                   THEN Some([call |-> TheValue(rr_call'), result |-> rr_result'])
                   ELSE rr_first
    /\ UNCHANGED handler_vars

\* recommender.get_attractions_near_route(route, max_distance) on the k-th
\* candidate of the list the caller holds; the list it returns is the caller's
GetAttractionsNearRoute(k, max_distance) ==
    /\ rr_call # None
    /\ k \in 1..Len(rr_result)
    /\ attractions_data' = MarkAttractions(cities_data, attractions_data,
                                           rr_result[k], max_distance)
    /\ UNCHANGED <<cities_data, rr_call, rr_sorted, rr_result, adv_vars, aux_vars>>

\* the request handler ends: the candidate list of the call is dropped
DiscardRoutes ==
    /\ rr_call # None
    /\ rr_call' = None
    /\ rr_sorted' = << >>
    /\ rr_result' = << >>
    /\ rr_intermediate' = << >>
    /\ http_response' = None
    /\ UNCHANGED <<cities_data, attractions_data, adv_vars, rr_first, threads, chat_vars>>

(***************************************************************************)
(* AdvancedRouteRecommender.  The data layer is the route_segments table   *)
(* behind self.db; a row carries the columns the code reads.  A NULL       *)
(* scenic_rating is None.                                                  *)
(***************************************************************************)
Row(o, d, km, hours, toll, fuel, scenic, unesco, historical, religious) ==
    [origin_city_id |-> o, destination_city_id |-> d, distance_km |-> km,
     duration_hours |-> hours, toll_cost |-> toll, fuel_cost |-> fuel,
     scenic_rating |-> scenic, unesco_heritage |-> unesco,
     historical_period |-> historical, religious_significance |-> religious]

\* the rows a table of the model is made of
RowPool ==
    << Row(1, 2, 100, 1, 50000, 100000, Some(5), TRUE, TRUE, TRUE),
       Row(1, 2, 700, 12, 300000, 600000, None, FALSE, FALSE, FALSE),
       Row(1, 3, 200, 3, 20000, 80000, Some(4), FALSE, TRUE, FALSE),
       Row(3, 2, 300, 4, 0, 250000, Some(3), FALSE, FALSE, TRUE),
       Row(1, 1, 0, 0, 0, 0, Some(0), FALSE, FALSE, FALSE),
       Row(2, 2, 10, 1, 0, 5000, Some(2), FALSE, FALSE, FALSE),
       Row(2, 1, 100, 2, 50000, 100000, Some(1), TRUE, FALSE, FALSE) >>

\* the rows of RowPool with the indices in picked, in the order of RowPool
RowsOf(picked) ==
    [k \in 1..Cardinality(picked) |->
        RowPool[CHOOSE i \in picked : Cardinality({j \in picked : j < i}) = k - 1]]

Tables ==
    { RowsOf(picked) : picked \in {p \in SUBSET (1..Len(RowPool)) :
                                        Cardinality(p) <= MaxSegments} }

\* _load_cultural_weights, in tenths
cultural_weights == [historical |-> 13, religious |-> 12, cultural |-> 11,
                     natural |-> 10, modern |-> 9, unesco_heritage |-> 15]

\* _load_seasonal_data: tourism_factor, in tenths
tourism_factor == [spring |-> 13, summer |-> 9, fall |-> 12, winter |-> 8]

\* _get_current_season
get_current_season(month) ==
    IF month \in {3, 4, 5} THEN "spring"
    ELSE IF month \in {6, 7, 8} THEN "summer"
    ELSE IF month \in {9, 10, 11} THEN "fall"
    ELSE "winter"

\* _calculate_cultural_significance, in tenths
calculate_cultural_significance(row) ==
    Min((IF row.unesco_heritage THEN cultural_weights.unesco_heritage ELSE 0)
        + (IF row.historical_period THEN cultural_weights.historical ELSE 0)
        + (IF row.religious_significance THEN cultural_weights.religious ELSE 0),
        50)

\* the RouteSegment built from a row
Segment(row) ==
    [origin_city_id |-> row.origin_city_id,
     destination_city_id |-> row.destination_city_id,
     distance_km |-> row.distance_km,
     duration_hours |-> row.duration_hours,
     cost_toman |-> row.toll_cost + row.fuel_cost,
     scenic_rating |-> row.scenic_rating,
     cultural_significance |-> calculate_cultural_significance(row)]

InList(x, list) == \E k \in 1..Len(list) : list[k] = x

\* a query without the two NOT IN conditions
SegmentSelectedAnyCity(row, constraints) ==
    \/ row.origin_city_id = constraints.origin_city_id
    \/ row.destination_city_id = constraints.destination_city_id

\* the WHERE clause of the query of _get_route_segments
SegmentSelected(row, constraints) ==
    /\ \/ row.origin_city_id = constraints.origin_city_id
       \/ row.destination_city_id = constraints.destination_city_id
    /\ ~InList(row.origin_city_id, constraints.avoid_cities)
    /\ ~InList(row.destination_city_id, constraints.avoid_cities)

\* _get_route_segments
get_route_segments(table, constraints) ==
    LET rows == SelectSeq(table, LAMBDA row : SegmentSelected(row, constraints))
    IN  [k \in 1..Len(rows) |-> Segment(rows[k])]

\* the pairs <<i, j>> of 1..n x 1..n in the order of two nested loops
PairAt(n, k) == << ((k - 1) \div n) + 1, ((k - 1) % n) + 1 >>

IsDirect(segment, constraints) ==
    /\ segment.origin_city_id = constraints.origin_city_id
    /\ segment.destination_city_id = constraints.destination_city_id

IsWaypointPair(segment1, segment2, constraints) ==
    /\ segment1.origin_city_id = constraints.origin_city_id
    /\ segment1.destination_city_id = segment2.origin_city_id
    /\ segment2.destination_city_id = constraints.destination_city_id

DirectCombination(segment) ==
    [type |-> "direct",
     segments |-> <<segment>>,
     total_distance |-> segment.distance_km,
     total_duration |-> segment.duration_hours,
     total_cost |-> segment.cost_toman,
     waypoints |-> << >>,
     score |-> 0]

\* a route through a waypoint that is charged its first segment only
WaypointCombinationFirstLeg(segment1, segment2) ==
    [type |-> "with_waypoints",
     segments |-> <<segment1, segment2>>,
     total_distance |-> segment1.distance_km + segment2.distance_km,
     total_duration |-> segment1.duration_hours + segment2.duration_hours,
     total_cost |-> segment1.cost_toman,
     waypoints |-> <<segment1.destination_city_id>>,
     score |-> 0]

WaypointCombination(segment1, segment2) ==
    [type |-> "with_waypoints",
     segments |-> <<segment1, segment2>>,
     total_distance |-> segment1.distance_km + segment2.distance_km,
     total_duration |-> segment1.duration_hours + segment2.duration_hours,
     total_cost |-> segment1.cost_toman + segment2.cost_toman,
     waypoints |-> <<segment1.destination_city_id>>,
     score |-> 0]

\* _generate_route_combinations
generate_route_combinations(segments, constraints) ==
    LET n == Len(segments)
        direct == SelectSeq(segments, LAMBDA sg : IsDirect(sg, constraints))
        pairs == SelectSeq([k \in 1..(n * n) |-> PairAt(n, k)],
                        LAMBDA pr : IsWaypointPair(segments[pr[1]], segments[pr[2]],
                                                   constraints))
    IN  [k \in 1..Len(direct) |-> DirectCombination(direct[k])]
        \o [k \in 1..Len(pairs) |->
               WaypointCombination(segments[pairs[k][1]], segments[pairs[k][2]])]

\* budget_limits.get(budget_range, 500000)
budget_limit(budget_range) ==
    IF budget_range = "low" THEN 200000
    ELSE IF budget_range = "medium" THEN 500000
    ELSE IF budget_range = "high" THEN 1000000
    ELSE IF budget_range = "luxury" THEN 2000000
    ELSE 500000

\* the tiers of a score that compares with < where the code compares with <=
calculate_cost_score_strict(cost, budget_range) ==
    LET limit == budget_limit(budget_range)
    IN  IF 2 * cost < limit THEN 5
        ELSE IF 10 * cost < 8 * limit THEN 4
        ELSE IF cost < limit THEN 3
        ELSE IF 2 * cost < 3 * limit THEN 2
        ELSE 1

\* _calculate_cost_score, in units
calculate_cost_score(cost, budget_range) ==
    LET limit == budget_limit(budget_range)
    IN  IF 2 * cost <= limit THEN 5
        ELSE IF 10 * cost <= 8 * limit THEN 4
        ELSE IF cost <= limit THEN 3
        ELSE IF 2 * cost <= 3 * limit THEN 2
        ELSE 1

RECURSIVE SumOver(_, _)
SumOver(values, k) == IF k = 0 THEN 0 ELSE values[k] + SumOver(values, k - 1)

\* _calculate_cultural_score, in 1e-7
calculate_cultural_score(route, user_preferences) ==
    LET per_segment == [k \in 1..Len(route.segments) |->
                           route.segments[k].cultural_significance * 1000000
                           + (IF user_preferences.cultural_interests # << >>
                              THEN 5000000 ELSE 0)]
    IN  Min(SumOver(per_segment, Len(per_segment)) \div Len(route.segments), 50000000)

\* sum(segment.scenic_rating ...) raises TypeError on a None rating
ScenicFails(route) ==
    \E k \in 1..Len(route.segments) : route.segments[k].scenic_rating = None

\* _calculate_scenic_score, in 1e-7
calculate_scenic_score(route) ==
    LET ratings == [k \in 1..Len(route.segments) |->
                       TheValue(route.segments[k].scenic_rating) * 10000000]
    IN  Min(SumOver(ratings, Len(ratings)) \div Len(route.segments), 50000000)

\* _get_seasonal_adjustment, in tenths
get_seasonal_adjustment(month) == tourism_factor[get_current_season(month)]

\* _apply_user_preferences, in hundredths
\* an adjustment that leaves the group size out
apply_user_preferences_style_only(route, user_preferences) ==
    IF user_preferences.travel_style = "budget"
    THEN (IF route.total_cost > 300000 THEN 80 ELSE 100)
    ELSE IF user_preferences.travel_style = "luxury"
         THEN (IF route.total_cost < 500000 THEN 90 ELSE 100)
         ELSE 100

apply_user_preferences(route, user_preferences) ==
    LET style == IF user_preferences.travel_style = "budget"
                 THEN (IF route.total_cost > 300000 THEN 8 ELSE 10)
                 ELSE IF user_preferences.travel_style = "luxury"
                      THEN (IF route.total_cost < 500000 THEN 9 ELSE 10)
                      ELSE 10
        group == IF user_preferences.group_size > 4 THEN 11 ELSE 10
    IN  style * group

\* the number of features _get_ml_score hands to scaler.transform
PredictionFeatures == 8

\* the number of features _extract_route_features gives scaler.fit_transform
TrainingFeatures == 9

\* _get_ml_score, in 1e-7: the prediction clipped to [0, 5]; 3.0 when there is
\* no model or when scaling or predicting raises (the scaler rejects a row whose
\* width is not the width it was fitted on)
get_ml_score(model) ==
    IF model = None THEN 30000000
    ELSE IF TheValue(model).scaler_features # PredictionFeatures THEN 30000000
    ELSE Max(0, Min(50000000, TheValue(model).prediction * 1000000))

\* _calculate_route_score up to the blend of line 342, in 1e-7
BlendedScore(route, user_preferences, model, month) ==
    LET distance_score == Max(0, 50000000 - route.total_distance * 100000)
        duration_score == Max(0, 50000000 - route.total_duration * 5000000)
        cost_score_ == calculate_cost_score(route.total_cost,
                                            user_preferences.budget_range) * 10000000
        cultural_score == calculate_cultural_score(route, user_preferences)
        scenic_score_ == calculate_scenic_score(route)
        base_score == distance_score \div 5 + duration_score \div 5
                      + cost_score_ \div 4 + cultural_score \div 5
                      + (scenic_score_ * 15) \div 100
        seasonal == (base_score * get_seasonal_adjustment(month)) \div 10
        preferred == (seasonal \div 100) * apply_user_preferences(route, user_preferences)
    IN  IF model # None
        THEN (preferred * 7) \div 10 + (get_ml_score(model) * 3) \div 10
        ELSE preferred

\* a scorer that forgets the cap of line 344
RouteScoreUncapped(route, user_preferences, model, month) ==
    BlendedScore(route, user_preferences, model, month)

\* the try block of _calculate_route_score: return min(base_score, 5.0)
RouteScoreBody(route, user_preferences, model, month) ==
    Min(BlendedScore(route, user_preferences, model, month), 50000000)

\* _calculate_route_score, in 1e-7: 0.0 when the computation raises
calculate_route_score(route, user_preferences, model, month) ==
    IF ScenicFails(route) THEN 0
    ELSE RouteScoreBody(route, user_preferences, model, month)

\* AdvancedRouteRecommender.recommend_routes
advanced_recommend_routes(table, model, user_preferences, constraints, num_recommendations, month) ==
    LET route_combinations ==
            generate_route_combinations(get_route_segments(table, constraints),
                                        constraints)
        scored_routes ==
            [k \in 1..Len(route_combinations) |->
                [route_combinations[k] EXCEPT
                    !.score = calculate_route_score(route_combinations[k],
                                                    user_preferences, model, month)]]
    IN  Prefix(SortByScore(scored_routes), num_recommendations)

(***************************************************************************)
(* Calls of AdvancedRouteRecommender.                                      *)
(***************************************************************************)
UserPreferences(budget_range, travel_style, group_size, cultural_interests) ==
    [budget_range |-> budget_range, travel_style |-> travel_style,
     group_size |-> group_size, cultural_interests |-> cultural_interests]

UserPreferenceChoices ==
    { UserPreferences("luxury", "luxury", 5, <<"historical">>),
      UserPreferences("low", "budget", 2, << >>),
      UserPreferences("medium", "standard", 5, <<"historical">>),
      UserPreferences("premium", "budget", 6, << >>) }

RouteConstraints(origin_city_id, destination_city_id, max_budget, max_duration_hours, avoid_cities) ==
    [origin_city_id |-> origin_city_id,
     destination_city_id |-> destination_city_id,
     max_budget |-> max_budget,
     max_duration_hours |-> max_duration_hours,
     avoid_cities |-> avoid_cities]

ConstraintChoices ==
    { RouteConstraints(od[1], od[2], lim[1], lim[2], avoid) :
        od \in { <<1, 2>>, <<1, 1>>, <<3, 2>> },
        lim \in { <<None, None>>, <<Some(200000), None>>, <<None, Some(5)>> },
        avoid \in { << >>, <<3>> } }

MonthChoices == {4, 12}

RecommendationCounts == {1, 5}

\* what train_ml_model leaves in self.ml_model: a forest behind a scaler fitted on
\* rows of _extract_route_features, or None when training raised
TrainedModels ==
    { Some([scaler_features |-> TrainingFeatures, prediction |-> p]) : p \in {-20, 90} }

\* recommender.recommend_routes(user_preferences, constraints, num_recommendations),
\* in the month datetime.now() gives
AdvancedRecommendRoutes(user_preferences, constraints, num_recommendations, month) ==
    /\ adv_call = None
    /\ adv_call' = Some([user_preferences |-> user_preferences,
                         constraints |-> constraints,
                         num_recommendations |-> num_recommendations,
                         month |-> month])
    /\ adv_combinations' =
           generate_route_combinations(get_route_segments(route_segments, constraints),
                                       constraints)
    /\ adv_result' = advanced_recommend_routes(route_segments, ml_model,
                         user_preferences, constraints, num_recommendations, month)
    /\ UNCHANGED <<route_segments, ml_model, rr_vars, aux_vars>>

\* the caller drops the list
DiscardAdvancedRoutes ==
    /\ adv_call # None
    /\ adv_call' = None
    /\ adv_combinations' = << >>
    /\ adv_result' = << >>
    /\ UNCHANGED <<route_segments, ml_model, rr_vars, aux_vars>>

\* train_ml_model(training_data)
TrainMlModel(outcome) ==
    /\ adv_call = None
    /\ ml_model' = outcome
    /\ UNCHANGED <<route_segments, adv_call, adv_combinations, adv_result, rr_vars,
                   aux_vars>>

\* no call is kept and no call runs in parallel
\* no handler of app/api/routes.py has run
HandlerIdle ==
    /\ rr_intermediate = << >>
    /\ http_response = None

\* app/api/chat.py as imported: chat_service = AdvancedChatService() has no
\* context, active_connections = {}, no websocket was accepted
ChatIdle ==
    /\ chat_contexts = [user_id \in {} |-> None]
    /\ chat_call = None
    /\ active_connections = [user_id \in {} |-> 0]
    /\ websockets = << >>

AuxIdle ==
    /\ rr_first = None
    /\ threads = << >>
    /\ HandlerIdle
    /\ ChatIdle

AdvIdle ==
    /\ route_segments = << >>
    /\ ml_model = None
    /\ adv_call = None
    /\ adv_combinations = << >>
    /\ adv_result = << >>

Init ==
    /\ cities_data \in Catalogs
    /\ attractions_data = AttractionList
    /\ rr_call = None
    /\ rr_sorted = << >>
    /\ rr_result = << >>
    /\ AdvIdle
    /\ AuxIdle

Next ==
    \/ /\ rr_call = None
       /\ \E origin \in RequestNames, destination \in RequestNames,
             preferences \in PreferenceChoices, budget \in BudgetChoices,
             duration_days \in DurationChoices :
             RecommendRoutes(origin, destination, preferences, budget, duration_days)
    \/ DiscardRoutes

Spec == Init /\ [][Next]_vars

(***************************************************************************)
(* The specification of a caller that uses both operations of the          *)
(* recommender and keeps what the first recommend_routes call returned.    *)
(* The catalog has its cities at distinct places.                          *)
(***************************************************************************)
\* max_distance (hm): the default of 50 km, and 60 km
MaxDistanceChoices == {500, 600}

InitCatalog ==
    /\ cities_data \in {c \in Catalogs :
                            \A i, j \in 1..Len(c) :
                                (c[i].lat = c[j].lat /\ c[i].lng = c[j].lng) => i = j}
    /\ attractions_data = AttractionList
    /\ rr_call = None
    /\ rr_sorted = << >>
    /\ rr_result = << >>
    /\ AdvIdle
    /\ AuxIdle

NextCatalog ==
    \/ /\ rr_call = None
       /\ \E origin \in RequestNames, destination \in RequestNames :
             KeptRecommendRoutes(origin, destination, default_route_preferences,
                                 None, None)
    \/ \E k \in 1..max_routes_per_request, max_distance \in MaxDistanceChoices :
          GetAttractionsNearRoute(k, max_distance)
    \/ DiscardRoutes

SpecCatalog == InitCatalog /\ [][NextCatalog]_vars

(***************************************************************************)
(* Two recommend_routes calls running in parallel on the recommender of    *)
(* app/api/routes.py.  What a call shares with the other one is the        *)
(* "detour_ratio" field of the city dicts: _find_intermediate_cities       *)
(* writes it in its loop and reads it again in the key function of its     *)
(* sort.  A step of a call is one iteration of the loop, one call of the   *)
(* key function, or the rest of the call, which works on local values and  *)
(* on fields nothing writes.                                               *)
(***************************************************************************)
ParallelCityCount == NumCities + 1

Callers == {1, 2}

\* the catalog: the first city at (1,1), the third at (1,3), the others in between
ParallelCatalogs ==
    { [i \in 1..ParallelCityCount |->
          City(CityNames[i],
               IF i = 1 THEN <<1, 1>> ELSE IF i = 3 THEN <<1, 3>> ELSE pl[i],
               PopulationOf(i))] :
        pl \in [1..ParallelCityCount -> { <<1, 2>>, <<2, 2>> }] }

ParallelNames == {CityNames[i] : i \in 1..ParallelCityCount}

\* the origin/destination pairs of the calls: two cities of the catalog
ParallelPairs ==
    {pair \in ParallelNames \X ParallelNames : pair[1] # pair[2]}

\* a caller that has not called yet
NotCalled ==
    [pc |-> "idle", origin |-> "", destination |-> "", preferences |-> EmptyPreferences,
     i |-> 0, found |-> << >>, keys |-> << >>, result |-> << >>]

\* recommend_routes up to the call of _find_intermediate_cities; the other caller
\* asks or asked for another origin/destination pair
StartCall(t, origin, destination, preferences) ==
    /\ threads[t].pc = "idle"
    /\ \A u \in Callers \ {t} :
          <<threads[u].origin, threads[u].destination>> # <<origin, destination>>
    /\ threads' = [threads EXCEPT ![t] =
          [NotCalled EXCEPT !.origin = origin, !.destination = destination,
                            !.preferences = preferences,
                            !.pc = IF Resolved(cities_data, origin, destination)
                                   THEN "loop" ELSE "done",
                            !.i = 1]]
    /\ UNCHANGED <<rr_vars, adv_vars, rr_first, handler_vars, chat_vars>>

\* one iteration of the loop of _find_intermediate_cities
ScanCity(t) ==
    /\ threads[t].pc = "loop"
    /\ threads[t].i <= Len(cities_data)
    /\ LET i == threads[t].i
           o == TheValue(find_city_coordinates(cities_data, threads[t].origin))
           d == TheValue(find_city_coordinates(cities_data, threads[t].destination))
       IN  IF IsIntermediate(cities_data[i], o, d)
           THEN /\ cities_data' = [cities_data EXCEPT ![i].detour_ratio =
                                       Some(DetourRatio(cities_data[i], o, d))]
                /\ threads' = [threads EXCEPT ![t].i = i + 1,
                                              ![t].found = Append(@, i)]
           ELSE /\ threads' = [threads EXCEPT ![t].i = i + 1]
                /\ UNCHANGED cities_data
    /\ UNCHANGED <<attractions_data, rr_call, rr_sorted, rr_result, adv_vars, rr_first,
                   handler_vars, chat_vars>>

\* intermediate_cities.sort(key=...): the key function reads x["detour_ratio"] of
\* the next element of the list
ReadKey(t) ==
    /\ threads[t].pc = "loop"
    /\ threads[t].i > Len(cities_data)
    /\ Len(threads[t].keys) < Len(threads[t].found)
    /\ threads' = [threads EXCEPT ![t].keys =
          Append(@, TheValue(cities_data[threads[t].found[Len(@) + 1]].detour_ratio))]
    /\ UNCHANGED <<rr_vars, adv_vars, rr_first, handler_vars, chat_vars>>

\* the list of city indices sorted by the keys that were read
SortByKeys(found, keys) ==
    StableSort(found, [i \in 1..Len(found) |->
                          [j \in 1..Len(found) |->
                              keys[i][1] * keys[j][2] < keys[j][1] * keys[i][2]]])

\* the sort itself and the rest of recommend_routes (no budget, no duration)
FinishCall(t) ==
    /\ threads[t].pc = "loop"
    /\ threads[t].i > Len(cities_data)
    /\ Len(threads[t].keys) = Len(threads[t].found)
    /\ LET sorted == SortByKeys(threads[t].found, threads[t].keys)
           intermediate_cities == [k \in 1..Len(sorted) |-> cities_data[sorted[k]]]
           routes == RoutesThrough(cities_data, attractions_data, threads[t].origin,
                                   threads[t].destination, threads[t].preferences,
                                   intermediate_cities)
       IN  threads' = [threads EXCEPT ![t].pc = "done",
                                      ![t].result = Prefix(routes, max_routes_per_request)]
    /\ UNCHANGED <<rr_vars, adv_vars, rr_first, handler_vars, chat_vars>>

InitParallel ==
    /\ cities_data \in ParallelCatalogs
    /\ attractions_data = AttractionList
    /\ rr_call = None
    /\ rr_sorted = << >>
    /\ rr_result = << >>
    /\ AdvIdle
    /\ rr_first = None
    /\ threads = [t \in Callers |-> NotCalled]
    /\ HandlerIdle
    /\ ChatIdle

NextParallel ==
    \/ \E t \in Callers, pair \in ParallelPairs,
          preferences \in {EmptyPreferences, default_route_preferences} :
          StartCall(t, pair[1], pair[2], preferences)
    \/ \E t \in Callers : ScanCity(t)
    \/ \E t \in Callers : ReadKey(t)
    \/ \E t \in Callers : FinishCall(t)

SpecParallel == InitParallel /\ [][NextParallel]_vars

(***************************************************************************)
(* The specification of AdvancedRouteRecommender over a table.             *)
(***************************************************************************)
RouteRecommenderIdle ==
    /\ cities_data = << >>
    /\ attractions_data = << >>
    /\ rr_call = None
    /\ rr_sorted = << >>
    /\ rr_result = << >>

InitAdvanced ==
    /\ route_segments \in Tables
    /\ ml_model = None
    /\ adv_call = None
    /\ adv_combinations = << >>
    /\ adv_result = << >>
    /\ RouteRecommenderIdle
    /\ AuxIdle

NextAdvanced ==
    \/ /\ adv_call = None
       /\ \E user_preferences \in UserPreferenceChoices,
             constraints \in ConstraintChoices,
             num_recommendations \in RecommendationCounts,
             month \in MonthChoices :
             AdvancedRecommendRoutes(user_preferences, constraints,
                                     num_recommendations, month)
    \/ DiscardAdvancedRoutes
    \/ \E outcome \in TrainedModels \cup {None} : TrainMlModel(outcome)

SpecAdvanced == InitAdvanced /\ [][NextAdvanced]_vars

(***************************************************************************)
(* The specification of the scoring of one direct route: a table with one  *)
(* segment from city 1 to city 2 whose cost is drawn around the thresholds *)
(* of _calculate_cost_score and _apply_user_preferences, scored for every  *)
(* budget tier, travel style and group size.                               *)
(***************************************************************************)
\* 50%, 80%, 100% and 150% of the four ceilings, and the thresholds 300,000 and
\* 500,000 of the travel styles
CostThresholds ==
    {100000, 160000, 200000, 300000, 250000, 400000, 500000, 750000,
     800000, 1000000, 1500000, 1600000, 2000000, 3000000}

CostChoices == {0} \cup CostThresholds \cup {c - 1 : c \in CostThresholds}
                   \cup {c + 1 : c \in CostThresholds}

\* "premium" names no tier of budget_limits
TierChoices == {"low", "medium", "high", "luxury", "premium"}

ScoringPreferenceChoices ==
    { UserPreferences(tier, style, group_size, << >>) :
        tier \in TierChoices, style \in {"budget", "luxury", "standard"},
        group_size \in {4, 5} }

InitScoring ==
    /\ route_segments \in
          { << Row(1, 2, 100, 1, cost, 0, Some(3), FALSE, FALSE, FALSE) >> :
              cost \in CostChoices }
    /\ ml_model = None
    /\ adv_call = None
    /\ adv_combinations = << >>
    /\ adv_result = << >>
    /\ RouteRecommenderIdle
    /\ AuxIdle

NextScoring ==
    \/ /\ adv_call = None
       /\ \E user_preferences \in ScoringPreferenceChoices :
             AdvancedRecommendRoutes(user_preferences,
                 RouteConstraints(1, 2, None, None, << >>), 1, 4)
    \/ DiscardAdvancedRoutes

SpecScoring == InitScoring /\ [][NextScoring]_vars

(***************************************************************************)
(* The specification of recommend_routes over catalogs of three cities of  *)
(* which one is at a detour of 1.2 between the two others.                 *)
(***************************************************************************)
\* places <<A, B, W>> with dist(A,W) + dist(W,B) = 1.2 * dist(A,B), to the
\* hectometre: W nearer to A and to B than they are to each other; the same with
\* A and W at longitude 0; W farther from A than B is
DetourScenarios ==
    { << <<1, 1>>, <<9, 10>>, <<6, 1>> >>,
      << <<1, 0>>, <<9, 9>>, <<6, 0>> >>,
      << <<1, 1>>, <<14, 23>>, <<18, 21>> >> }

\* the three places given to the first three city names in every order
DetourCatalogs ==
    { [i \in 1..3 |-> City(CityNames[i], scenario[order[i]], PopulationOf(i))] :
        scenario \in DetourScenarios, order \in Permutations(1..3) }

InitDetour ==
    /\ cities_data \in DetourCatalogs
    /\ attractions_data = AttractionList
    /\ rr_call = None
    /\ rr_sorted = << >>
    /\ rr_result = << >>
    /\ AdvIdle
    /\ AuxIdle

NextDetour ==
    \/ /\ rr_call = None
       /\ \E origin \in RequestNames, destination \in RequestNames,
             preferences \in PreferenceChoices :
             RecommendRoutes(origin, destination, preferences, None, None)
    \/ DiscardRoutes

SpecDetour == InitDetour /\ [][NextDetour]_vars

(***************************************************************************)
(* The specification of recommend_routes over catalogs of six cities: the  *)
(* first two are the ends of a journey, the four others are candidate      *)
(* waypoints.  The list _find_intermediate_cities hands back to the call   *)
(* (the local intermediate_cities of line 152) is kept in rr_intermediate. *)
(***************************************************************************)
WaypointCityCount == 6

\* seen from <<1, 1>> and <<1, 5>>: detour ratios 1.0002, 1.144, 1.414, 1.80
\* (both legs shorter than the direct distance) and a place further away than
\* the other end
WaypointPlaces == { <<1, 3>>, <<2, 2>>, <<3, 3>>, <<4, 3>>, <<9, 9>> }

WaypointCatalogs ==
    { [i \in 1..WaypointCityCount |->
          City(CityNames[i],
               IF i = 1 THEN <<1, 1>> ELSE IF i = 2 THEN <<1, 5>> ELSE pl[i],
               PopulationOf(i))] :
        pl \in [3..WaypointCityCount -> WaypointPlaces] }

\* recommender.recommend_routes(origin, destination, preferences), lines 126-160
\* with the list line 152 receives
RecommendRoutesWithLocals(origin, destination, preferences) ==
    /\ RecommendRoutesEffect(origin, destination, preferences, None, None)
    /\ rr_intermediate' =
          IF Resolved(cities_data, origin, destination)
          THEN find_intermediate_cities(cities_data,
                   TheValue(find_city_coordinates(cities_data, origin)),
                   TheValue(find_city_coordinates(cities_data, destination)))
          ELSE << >>
    /\ UNCHANGED <<rr_first, http_response>>

InitWaypoints ==
    /\ cities_data \in WaypointCatalogs
    /\ attractions_data = AttractionList
    /\ rr_call = None
    /\ rr_sorted = << >>
    /\ rr_result = << >>
    /\ AdvIdle
    /\ AuxIdle

NextWaypoints ==
    \/ /\ rr_call = None
       /\ \E origin \in {"qom", "Yazd", "nowhere"},
             destination \in {"qom", "Yazd", "nowhere"},
             preferences \in {EmptyPreferences, default_route_preferences} :
             RecommendRoutesWithLocals(origin, destination, preferences)
    \/ DiscardRoutes

SpecWaypoints == InitWaypoints /\ [][NextWaypoints]_vars

(***************************************************************************)
(* The specification of the handlers POST /recommend and POST /save-route  *)
(* of app/api/routes.py over the recommender singleton.  A response is the *)
(* status the client receives and the detail of the error, if any; of a    *)
(* detail built as f"...: {str(e)}" the model keeps the fixed part.        *)
(***************************************************************************)
HTTPException(status_code, detail) == [status_code |-> status_code, detail |-> detail]

Ok == [status_code |-> 200, detail |-> ""]

\* try: <body> except Exception as e: raise HTTPException(status_code=500,
\* detail=f"{prefix}: {str(e)}").  `raised` is what the body raised, None when it
\* returned; HTTPException is an Exception, so the clause catches it too
ExceptException(raised, prefix) ==
    IF raised = None THEN Ok ELSE HTTPException(500, prefix)

\* if not routes: raise HTTPException(status_code=404, detail="No suitable route found")
RaiseIfNoRoutes(routes) ==
    IF routes = << >> THEN Some(HTTPException(404, "No suitable route found")) ELSE None

\* POST /recommend: the handler recommend_routes(request)
PostRecommend(origin, destination, preferences, budget, duration_days) ==
    /\ RecommendRoutesEffect(origin, destination, preferences, budget, duration_days)
    /\ http_response' = Some(ExceptException(RaiseIfNoRoutes(rr_result'),
                                             "Request processing error"))
    /\ UNCHANGED <<rr_first, rr_intermediate>>

\* POST /save-route: the handler save_route(route_request, db), whose preferences
\* are `route_request.preferences or {}`; db_raises says whether db.add /
\* db.commit / db.refresh raises
PostSaveRoute(origin, destination, preferences, budget, duration_days, db_raises) ==
    /\ RecommendRoutesEffect(origin, destination, GetOr(preferences, EmptyPreferences),
                             budget, duration_days)
    /\ http_response' =
          LET raised == RaiseIfNoRoutes(rr_result')
          IN  Some(ExceptException(IF raised # None THEN raised
                                   ELSE IF db_raises THEN Some("SQLAlchemyError")
                                   ELSE None,
                                   "Error saving route"))
    /\ UNCHANGED <<rr_first, rr_intermediate>>

NextHandlers ==
    \/ /\ rr_call = None
       /\ \E origin \in RequestNames, destination \in RequestNames,
             budget \in BudgetChoices :
             PostRecommend(origin, destination, default_route_preferences, budget, None)
    \/ /\ rr_call = None
       /\ \E origin \in RequestNames, destination \in RequestNames,
             preferences \in {None, Some(default_route_preferences)},
             budget \in BudgetChoices, db_raises \in BOOLEAN :
             PostSaveRoute(origin, destination, preferences, budget, None, db_raises)
    \/ DiscardRoutes

SpecHandlers == Init /\ [][NextHandlers]_vars

(***************************************************************************)
(* AdvancedChatService (app/services/advanced_chat_service.py), the        *)
(* chat_service singleton of app/api/chat.py.  A message is modelled by    *)
(* what the service finds in it: the intent extract_intent returns, the    *)
(* number of city, number and currency entities extract_entities returns,  *)
(* and the score of analyze_sentiment (in tenths).  A dict is a function   *)
(* from its keys.                                                          *)
(***************************************************************************)
Message(intent, city, number, currency, sentiment_score) ==
    [intent |-> intent, city |-> city, number |-> number, currency |-> currency,
     sentiment_score |-> sentiment_score]

\* ChatContext(user_id=user_id, current_language=language) after __post_init__
ChatContext(language) ==
    [current_language |-> language,
     conversation_history |-> << >>,
     user_preferences |-> [key \in {} |-> 0],
     conversation_flow |-> "initial",
     sentiment_score |-> 0,
     user_satisfaction |-> 0]

\* a dict that forgets its keys on an update
DictReplace(dict, other) == other

\* dict.update
DictUpdate(dict, other) ==
    [key \in DOMAIN dict \cup DOMAIN other |->
        IF key \in DOMAIN other THEN other[key] ELSE dict[key]]

\* get_or_create_context: chat_contexts after the call
get_or_create_context(contexts, user_id, language) ==
    IF user_id \notin DOMAIN contexts
    THEN [u \in DOMAIN contexts \cup {user_id} |->
             IF u = user_id THEN ChatContext(language) ELSE contexts[u]]
    ELSE [contexts EXCEPT ![user_id].current_language = language]

\* a flow that a message of any other intent resets
update_conversation_flow_reset(message, context) ==
    IF message.intent = "route_request" /\ message.city > 0 THEN "route_planning"
    ELSE IF message.intent = "budget_request" THEN "budget_discussion"
    ELSE "initial"

\* _update_conversation_flow
update_conversation_flow(message, context) ==
    IF message.intent = "route_request" /\ message.city > 0 THEN "route_planning"
    ELSE IF message.intent = "budget_request" THEN "budget_discussion"
    ELSE IF message.intent = "greeting" THEN "initial"
    ELSE context.conversation_flow

\* whether the steps of process_message after the flow update raise:
\* generate_response reads response_templates[language] (KeyError for a language
\* other than fa and en) and, for a budget request with a number, currencies[0]
\* of the currency entities (IndexError when there is none)
ResponseRaises(message, language) ==
    \/ language \notin {"fa", "en"}
    \/ message.intent = "budget_request" /\ message.number > 0 /\ message.currency = 0

\* if len(history) > 10: history = history[-10:]
KeepLastTen(history) ==
    IF Len(history) > 10 THEN SubSeq(history, Len(history) - 9, Len(history))
    ELSE history

\* process_message: chat_contexts after the call.  The flow is stored before the
\* response is generated; the history entry is appended after it, unless a step
\* in between raised
process_message(contexts, message, user_id, language) ==
    LET created == get_or_create_context(contexts, user_id, language)
        context == created[user_id]
        flowed == [context EXCEPT
                      !.sentiment_score = message.sentiment_score,
                      !.conversation_flow = update_conversation_flow(message, context)]
        entry == [message |-> message, intent |-> message.intent]
        appended == [flowed EXCEPT
                        !.conversation_history =
                            KeepLastTen(Append(flowed.conversation_history, entry))]
    IN  [created EXCEPT ![user_id] =
            IF ResponseRaises(message, language) THEN flowed ELSE appended]

\* what process_message hands back: the intent and conversation_flow of the
\* ChatResponse; the error response of the except clause when a step raised; and
\* "raised" when the except clause itself raises on suggestion_templates[language]
process_message_returns(contexts, message, user_id, language) ==
    IF ~ResponseRaises(message, language)
    THEN [intent |-> message.intent,
          conversation_flow |->
              Some(process_message(contexts, message, user_id, language)[user_id]
                       .conversation_flow)]
    ELSE IF language \in {"fa", "en"}
         THEN [intent |-> "error", conversation_flow |-> None]
         ELSE [intent |-> "raised", conversation_flow |-> None]

\* what chat_service.process_message(message, user_id, language) does to the
\* service
ProcessMessageEffect(message, user_id, language) ==
    /\ chat_contexts' = process_message(chat_contexts, message, user_id, language)
    /\ chat_call' = Some([op |-> "process_message", user_id |-> user_id,
                          argument |-> message, language |-> language,
                          returned |-> process_message_returns(chat_contexts, message,
                                                               user_id, language)])

\* chat_service.process_message(message, user_id, language)
ProcessMessage(message, user_id, language) ==
    /\ ProcessMessageEffect(message, user_id, language)
    /\ UNCHANGED <<rr_vars, adv_vars, rr_first, threads, handler_vars,
                   active_connections, websockets>>

\* POST /feedback/{user_id}: submit_user_feedback(user_id, feedback)
SubmitUserFeedback(user_id, feedback) ==
    /\ chat_contexts' =
          LET created == get_or_create_context(chat_contexts, user_id, "fa")
              context == created[user_id]
              entry == [message |-> "", intent |-> "feedback",
                        feedback_score |-> feedback.satisfaction]
          IN  [created EXCEPT ![user_id] =
                  [context EXCEPT
                      !.user_satisfaction = feedback.satisfaction,
                      !.conversation_history =
                          Append(context.conversation_history, entry)]]
    /\ chat_call' = Some([op |-> "submit_user_feedback", user_id |-> user_id,
                          argument |-> feedback, language |-> "fa",
                          returned |-> TRUE])
    /\ UNCHANGED <<rr_vars, adv_vars, rr_first, threads, handler_vars,
                   active_connections, websockets>>

\* chat_service.clear_chat_history(user_id)
ClearChatHistory(user_id) ==
    /\ chat_contexts' =
          IF user_id \in DOMAIN chat_contexts
          THEN [chat_contexts EXCEPT ![user_id].conversation_history = << >>,
                                     ![user_id].conversation_flow = "initial"]
          ELSE chat_contexts
    /\ chat_call' = Some([op |-> "clear_chat_history", user_id |-> user_id,
                          argument |-> None, language |-> None,
                          returned |-> user_id \in DOMAIN chat_contexts])
    /\ UNCHANGED <<rr_vars, adv_vars, rr_first, threads, handler_vars,
                   active_connections, websockets>>

\* chat_service.update_user_preferences(user_id, preferences)
UpdateUserPreferences(user_id, preferences) ==
    /\ chat_contexts' =
          IF user_id \in DOMAIN chat_contexts
          THEN [chat_contexts EXCEPT
                   ![user_id].user_preferences =
                       DictUpdate(chat_contexts[user_id].user_preferences, preferences)]
          ELSE chat_contexts
    /\ chat_call' = Some([op |-> "update_user_preferences", user_id |-> user_id,
                          argument |-> preferences, language |-> None,
                          returned |-> user_id \in DOMAIN chat_contexts])
    /\ UNCHANGED <<rr_vars, adv_vars, rr_first, threads, handler_vars,
                   active_connections, websockets>>

\* neither recommender holds data; the chat service is as imported
InitChat ==
    /\ RouteRecommenderIdle
    /\ AdvIdle
    /\ AuxIdle

\* len(context.conversation_history), 0 for a user without context
HistoryLength(user_id) ==
    IF user_id \in DOMAIN chat_contexts
    THEN Len(chat_contexts[user_id].conversation_history)
    ELSE 0

(***************************************************************************)
(* The specification of one user's conversation: messages, feedback and    *)
(* clearing, long enough for the history to be cut.                        *)
(***************************************************************************)
\* the history length up to which feedback is submitted
MaxHistory == 12

NextChatHistory ==
    \/ \E message \in {Message("greeting", 0, 0, 0, 0), Message("budget_request", 0, 1, 0, 0)} :
          ProcessMessage(message, "1", "en")
    \/ /\ HistoryLength("1") < MaxHistory
       /\ SubmitUserFeedback("1", [satisfaction |-> 1])
    \/ ClearChatHistory("1")

SpecChatHistory == InitChat /\ [][NextChatHistory]_vars

(***************************************************************************)
(* The specification of the conversation flow: one user sends messages of  *)
(* every intent in a supported and an unsupported language, sends          *)
(* feedback, and clears the history.                                       *)
(***************************************************************************)
\* the history entries of a run
MaxFlowHistory == 2

\* a route request naming two cities, one naming none, a budget request with an
\* amount and a currency, one with an amount only, a greeting, a message no
\* pattern matches, and thanks
MessageChoices ==
    { Message("route_request", 2, 0, 0, 0), Message("route_request", 0, 0, 0, 0),
      Message("budget_request", 0, 1, 1, 0), Message("budget_request", 0, 1, 0, 0),
      Message("greeting", 0, 0, 0, 0), Message("unknown", 0, 0, 0, 0),
      Message("thanks", 0, 0, 0, 10) }

NextChatFlow ==
    \/ /\ HistoryLength("1") < MaxFlowHistory
       /\ \E message \in MessageChoices, language \in {"en", "de"} :
              ProcessMessage(message, "1", language)
    \/ /\ HistoryLength("1") < MaxFlowHistory
       /\ SubmitUserFeedback("1", [satisfaction |-> 1])
    \/ ClearChatHistory("1")

SpecChatFlow == InitChat /\ [][NextChatFlow]_vars

(***************************************************************************)
(* The specification of the stored preferences: two users, each with a     *)
(* context from the first message on, and preference patches over two      *)
(* keys for users with and without a context.                              *)
(***************************************************************************)
\* the messages of a user
MaxPreferenceMessages == 1

PatchChoices ==
    { [budget |-> 1], [budget |-> 2], [travel_style |-> 1],
      [budget |-> 2, travel_style |-> 2] }

NextChatPreferences ==
    \/ \E user_id \in {"1", "2"} :
           /\ HistoryLength(user_id) < MaxPreferenceMessages
           /\ ProcessMessage(Message("greeting", 0, 0, 0, 0), user_id, "en")
    \/ \E user_id \in {"1", "2"}, preferences \in PatchChoices :
           UpdateUserPreferences(user_id, preferences)

SpecChatPreferences == InitChat /\ [][NextChatPreferences]_vars

(***************************************************************************)
(* The specification of the WebSocket endpoint /ws/{user_id} of            *)
(* app/api/chat.py.  websockets lists the connections accepted so far: the *)
(* user_id of the path and where the handler is ("open": in its receive    *)
(* loop; "disconnected": the client is gone and the pending receive_text   *)
(* will raise WebSocketDisconnect; "done": the except clause has run).     *)
(* active_connections maps a user_id to the index of a connection.         *)
(***************************************************************************)
\* the connections accepted in a run
MaxSockets == 3

\* the messages a connection's user gets into the history
MaxSocketMessages == 1

UserIds == {1, 2}

\* str(user_id)
str(user_id) == IF user_id = 1 THEN "1" ELSE "2"

\* await websocket.accept(); active_connections[user_id] = websocket
AcceptWebSocket(user_id) ==
    /\ Len(websockets) < MaxSockets
    /\ websockets' = Append(websockets, [user_id |-> user_id, state |-> "open"])
    /\ active_connections' =
          [u \in DOMAIN active_connections \cup {user_id} |->
              IF u = user_id THEN Len(websockets) + 1 ELSE active_connections[u]]
    /\ UNCHANGED <<rr_vars, adv_vars, rr_first, threads, handler_vars,
                   chat_contexts, chat_call>>

\* one turn of the loop of the handler of connection k: receive_text,
\* process_message, send_text; when process_message raises, except Exception
\* removes the registration of the user and the handler returns
ReceiveText(k, message, language) ==
    /\ k \in 1..Len(websockets)
    /\ websockets[k].state = "open"
    /\ HistoryLength(str(websockets[k].user_id)) < MaxSocketMessages
    /\ ProcessMessageEffect(message, str(websockets[k].user_id), language)
    /\ LET raised == process_message_returns(chat_contexts, message,
                                             str(websockets[k].user_id),
                                             language).intent = "raised"
       IN  /\ websockets' = IF raised THEN [websockets EXCEPT ![k].state = "done"]
                                      ELSE websockets
           /\ active_connections' =
                 IF raised
                 THEN [u \in DOMAIN active_connections \ {websockets[k].user_id} |->
                          active_connections[u]]
                 ELSE active_connections
    /\ UNCHANGED <<rr_vars, adv_vars, rr_first, threads, handler_vars>>

\* the client of connection k goes away
ClientDisconnects(k) ==
    /\ k \in 1..Len(websockets)
    /\ websockets[k].state = "open"
    /\ websockets' = [websockets EXCEPT ![k].state = "disconnected"]
    /\ UNCHANGED <<rr_vars, adv_vars, rr_first, threads, handler_vars,
                   chat_contexts, chat_call, active_connections>>

\* except WebSocketDisconnect: if user_id in active_connections:
\* del active_connections[user_id]
ExceptWebSocketDisconnect(k) ==
    /\ k \in 1..Len(websockets)
    /\ websockets[k].state = "disconnected"
    /\ websockets' = [websockets EXCEPT ![k].state = "done"]
    /\ active_connections' =
          [u \in DOMAIN active_connections \ {websockets[k].user_id} |->
              active_connections[u]]
    /\ UNCHANGED <<rr_vars, adv_vars, rr_first, threads, handler_vars,
                   chat_contexts, chat_call>>

\* POST /typing/{user_id}: send_typing_indicator; sent_to is the connection
\* send_text was called on, success what the handler answers (send_text raises
\* on a connection that is no longer open)
SendTypingIndicator(user_id) ==
    /\ chat_call' =
          LET sent_to == IF user_id \in DOMAIN active_connections
                         THEN Some(active_connections[user_id]) ELSE None
          IN  Some([op |-> "send_typing_indicator", user_id |-> str(user_id),
                    argument |-> sent_to, language |-> None,
                    returned |-> \/ sent_to = None
                                 \/ websockets[TheValue(sent_to)].state = "open"])
    /\ UNCHANGED <<rr_vars, adv_vars, rr_first, threads, handler_vars,
                   chat_contexts, active_connections, websockets>>

NextWebSockets ==
    \/ \E user_id \in UserIds : AcceptWebSocket(user_id)
    \/ \E k \in 1..MaxSockets, language \in {"en", "de"} :
           ReceiveText(k, Message("greeting", 0, 0, 0, 0), language)
    \/ \E k \in 1..MaxSockets : ClientDisconnects(k)
    \/ \E k \in 1..MaxSockets : ExceptWebSocketDisconnect(k)
    \/ \E user_id \in UserIds : SendTypingIndicator(user_id)

SpecWebSockets == InitChat /\ [][NextWebSockets]_vars

(***************************************************************************)
(* A process that holds one of the two recommenders: a RouteRecommender    *)
(* over a catalog or an AdvancedRouteRecommender over a table.             *)
(***************************************************************************)
InitEither == InitCatalog \/ InitAdvanced

NextEither ==
    \/ (cities_data # << >> /\ Next)
    \/ (cities_data = << >> /\ NextAdvanced)

SpecEither == InitEither /\ [][NextEither]_vars

(***************************************************************************)
(* Properties.                                                             *)
(***************************************************************************)
NameInCatalog(name) ==
    \E i \in 1..Len(cities_data) : Lower(cities_data[i].name) = Lower(name)

\* the coordinates of the catalog city called name
CoordinatesOf(name) ==
    LET i == CHOOSE i \in 1..Len(cities_data) : Lower(cities_data[i].name) = Lower(name)
    IN  <<cities_data[i].lat, cities_data[i].lng>>

CatalogDistance(origin, destination) ==
    LET o == CoordinatesOf(origin)
        d == CoordinatesOf(destination)
    IN  calculate_distance(o[1], o[2], d[1], d[2])

\* C1: every candidate returned by RouteRecommender.recommend_routes has a score
\* in [0, 5], whatever the preference weights.
C1_ScoreInRange ==
    \A k \in 1..Len(rr_result) :
        rr_result[k].score >= 0 /\ rr_result[k].score <= 5000000

\* C2: every route returned by AdvancedRouteRecommender.recommend_routes has a
\* score in [0, 5], with or without a learned model, the scoring failing or not.
C2_AdvancedScoreInRange ==
    \A k \in 1..Len(adv_result) :
        adv_result[k].score >= 0 /\ adv_result[k].score <= 50000000

\* a model is set, one returned route hit the cap and the scoring of another failed
C2_Witness ==
    /\ ml_model # None
    /\ \E k \in 1..Len(adv_result) :
          /\ adv_result[k].score = 50000000
          /\ BlendedScore(adv_result[k], TheValue(adv_call).user_preferences,
                          ml_model, TheValue(adv_call).month) > 50000000
    /\ \E k \in 1..Len(adv_result) : ScenicFails(adv_result[k])

\* C3: for an origin and a destination that both name catalog cities at distance
\* > 0, a call without budget and duration returns the direct route, and more than
\* one candidate when some catalog city qualifies as a waypoint.
C3_DirectRouteReturned ==
    rr_call # None =>
        LET c == TheValue(rr_call)
        IN  ( /\ NameInCatalog(c.origin) /\ NameInCatalog(c.destination)
              /\ c.budget = None /\ c.duration_days = None
              /\ CatalogDistance(c.origin, c.destination) > 0 )
            => /\ \E k \in 1..Len(rr_result) : rr_result[k].type = "direct"
               /\ (\E i \in 1..Len(cities_data) :
                      IsIntermediate(cities_data[i], CoordinatesOf(c.origin),
                                     CoordinatesOf(c.destination)))
                    => Len(rr_result) > 1

\* C4: when the origin or the destination names no catalog city, recommend_routes
\* returns the empty list, whatever the preferences, budget and duration.
C4_UnknownCityEmpty ==
    rr_call # None =>
        LET c == TheValue(rr_call)
        IN  (~NameInCatalog(c.origin) \/ ~NameInCatalog(c.destination))
            => rr_result = << >>

\* a call with an unknown origin, a known destination, weights and both limits
C4_Witness ==
    /\ rr_call # None
    /\ ~NameInCatalog(TheValue(rr_call).origin)
    /\ NameInCatalog(TheValue(rr_call).destination)
    /\ TheValue(rr_call).preferences = [quiet |-> 60]
    /\ TheValue(rr_call).budget = Some(100)
    /\ TheValue(rr_call).duration_days = Some(1)
    /\ rr_result = << >>

\* C5: a supplied budget (0 included) strictly below the cost of every generated
\* candidate gives an empty result.
C5_BudgetBelowAllCosts ==
    rr_call # None =>
        LET c == TheValue(rr_call)
        IN  ( /\ c.budget # None
              /\ \A k \in 1..Len(rr_sorted) :
                    TheValue(c.budget) * 20 < rr_sorted[k].cost )
            => rr_result = << >>

\* C6: with duration_days supplied (0 included), a candidate that passed the
\* budget filter is returned iff its duration is at most duration_days * 24 hours.
C6_DurationCeiling ==
    rr_call # None =>
        LET c == TheValue(rr_call)
            passed == BudgetFilter(rr_sorted, c.budget)
        IN  c.duration_days # None =>
                \A k \in 1..Len(passed) :
                    InList(passed[k], rr_result)
                        <=> passed[k].duration <= TheValue(c.duration_days) * 24 * 800

\* C7: with max_budget or max_duration_hours set, no route returned by
\* AdvancedRouteRecommender.recommend_routes costs more than max_budget or lasts
\* longer than max_duration_hours.
C7_HardLimits ==
    adv_call # None =>
        LET c == TheValue(adv_call).constraints
        IN  \A k \in 1..Len(adv_result) :
                /\ c.max_budget # None
                      => adv_result[k].total_cost <= TheValue(c.max_budget)
                /\ c.max_duration_hours # None
                      => adv_result[k].total_duration <= TheValue(c.max_duration_hours)

\* C8: no route returned by AdvancedRouteRecommender.recommend_routes has a
\* waypoint or a segment endpoint in constraints.avoid_cities.
C8_AvoidedCities ==
    adv_call # None =>
        LET avoid == TheValue(adv_call).constraints.avoid_cities
        IN  \A k \in 1..Len(adv_result) :
                /\ \A w \in 1..Len(adv_result[k].waypoints) :
                      ~InList(adv_result[k].waypoints[w], avoid)
                /\ \A g \in 1..Len(adv_result[k].segments) :
                      /\ ~InList(adv_result[k].segments[g].origin_city_id, avoid)
                      /\ ~InList(adv_result[k].segments[g].destination_city_id, avoid)

\* routes are returned although the table holds a segment of the origin or the
\* destination that touches an avoided city
C8_Witness ==
    /\ adv_call # None
    /\ adv_result # << >>
    /\ \E r \in 1..Len(route_segments) :
          /\ SegmentSelectedAnyCity(route_segments[r], TheValue(adv_call).constraints)
          /\ ~SegmentSelected(route_segments[r], TheValue(adv_call).constraints)

\* C9: the intermediate city of every with_stops candidate returned by
\* RouteRecommender.recommend_routes is neither the origin nor the destination.
C9_IntermediateNotEndpoint ==
    rr_call # None =>
        \A k \in 1..Len(rr_result) :
            rr_result[k].type = "with_stops" =>
                LET name == TheValue(rr_result[k].intermediate_city)
                IN  /\ Lower(name) # Lower(TheValue(rr_call).origin)
                    /\ Lower(name) # Lower(TheValue(rr_call).destination)

\* a with_stops candidate is returned
C9_Witness ==
    /\ rr_call # None
    /\ \E k \in 1..Len(rr_result) : rr_result[k].type = "with_stops"

\* C10: the waypoint of every with_waypoints route built by
\* _generate_route_combinations differs from the origin and from the destination.
C10_WaypointNotEndpoint ==
    adv_call # None =>
        LET c == TheValue(adv_call).constraints
        IN  \A k \in 1..Len(adv_combinations) :
                adv_combinations[k].type = "with_waypoints" =>
                    /\ adv_combinations[k].waypoints[1] # c.origin_city_id
                    /\ adv_combinations[k].waypoints[1] # c.destination_city_id

\* C11: when the origin and the destination resolve to the same coordinates,
\* recommend_routes generates no with_stops candidate and returns exactly one
\* candidate, the direct route with distance 0.
C11_SamePlaceDirectOnly ==
    rr_call # None =>
        LET c == TheValue(rr_call)
        IN  ( /\ NameInCatalog(c.origin) /\ NameInCatalog(c.destination)
              /\ CoordinatesOf(c.origin) = CoordinatesOf(c.destination) )
            => /\ \A k \in 1..Len(rr_sorted) : rr_sorted[k].type = "direct"
               /\ Len(rr_result) = 1
               /\ rr_result[1].type = "direct"
               /\ rr_result[1].distance = 0

\* C12: a recommend_routes call with the arguments of an earlier call returns the
\* list the earlier call returned (same candidates, same order, same field
\* values), whatever recommend_routes and get_attractions_near_route calls were
\* made in between.
C12_RepeatedCallSameList ==
    (rr_first # None /\ rr_call # None /\ TheValue(rr_first).call = TheValue(rr_call))
        => rr_result = TheValue(rr_first).result

\* C13: no step of recommend_routes or get_attractions_near_route changes an
\* entry of cities_data or of attractions_data.
C13_CatalogUnchanged ==
    [][cities_data' = cities_data /\ attractions_data' = attractions_data]_vars

\* what recommend_routes returns when the call runs alone on the recommender
AloneResult(origin, destination, preferences) ==
    IF Resolved(cities_data, origin, destination)
    THEN Prefix(SortedRoutes(cities_data, attractions_data, origin, destination,
                             preferences),
                max_routes_per_request)
    ELSE << >>

\* C14: of two recommend_routes calls for different origin/destination pairs that
\* run in parallel on one recommender, each returns the list it returns when it
\* runs alone.
C14_ParallelCallsAsAlone ==
    \A t \in DOMAIN threads :
        threads[t].pc = "done" =>
            threads[t].result = AloneResult(threads[t].origin, threads[t].destination,
                                            threads[t].preferences)

\* the length of the leg a segment of a RouteRecommender candidate names; at the
\* rates of the direct route (80 km/h, 0.5 toman per km) its duration and its cost
\* are the same number in the units of the model
LegDistance(segment) == CatalogDistance(segment.origin, segment.destination)

\* the sum of the legs of a RouteRecommender candidate
LegTotal(route) ==
    SumOver([g \in 1..Len(route.segments) |-> LegDistance(route.segments[g])],
            Len(route.segments))

\* the totals of a route of AdvancedRouteRecommender are the sums over its segments
AdvancedTotalsAreSums(route) ==
    LET n == Len(route.segments)
    IN  /\ route.total_distance
              = SumOver([g \in 1..n |-> route.segments[g].distance_km], n)
        /\ route.total_duration
              = SumOver([g \in 1..n |-> route.segments[g].duration_hours], n)
        /\ route.total_cost
              = SumOver([g \in 1..n |-> route.segments[g].cost_toman], n)

\* C15: the distance, duration and cost of every candidate of either recommender
\* are the sums of the distances, durations and costs of its segments.
C15_AggregatesAreSegmentSums ==
    /\ \A k \in 1..Len(rr_sorted) :
          /\ rr_sorted[k].distance = LegTotal(rr_sorted[k])
          /\ rr_sorted[k].duration = LegTotal(rr_sorted[k])
          /\ rr_sorted[k].cost = LegTotal(rr_sorted[k])
    /\ \A k \in 1..Len(adv_combinations) : AdvancedTotalsAreSums(adv_combinations[k])

\* C15, amended: the distance of every RouteRecommender candidate is the sum of
\* its legs, its duration and its cost are the sums over the legs plus 2 hours and
\* 50 toman for every attraction of the waypoint city; the totals of every
\* AdvancedRouteRecommender route are the sums over its segments.
C15_AggregatesWithStopOverhead ==
    /\ \A k \in 1..Len(rr_sorted) :
          /\ rr_sorted[k].distance = LegTotal(rr_sorted[k])
          /\ rr_sorted[k].duration
                = LegTotal(rr_sorted[k]) + Len(rr_sorted[k].attractions) * 1600
          /\ rr_sorted[k].cost
                = LegTotal(rr_sorted[k]) + Len(rr_sorted[k].attractions) * 1000
    /\ \A k \in 1..Len(adv_combinations) : AdvancedTotalsAreSums(adv_combinations[k])

\* a candidate through a city with attractions was built
C15_Witness ==
    /\ rr_call # None
    /\ \E k \in 1..Len(rr_sorted) :
          /\ rr_sorted[k].type = "with_stops"
          /\ Len(rr_sorted[k].attractions) = 2

\* scores never increase along the list
NonIncreasingScores(list) ==
    \A k \in 1..(Len(list) - 1) : list[k].score >= list[k + 1].score

\* C16: the list either recommender returns is ordered by non-increasing score;
\* RouteRecommender returns at most settings.max_routes_per_request entries and
\* AdvancedRouteRecommender at most num_recommendations entries.
C16_SortedAndTruncated ==
    /\ rr_call # None =>
          /\ NonIncreasingScores(rr_result)
          /\ Len(rr_result) <= max_routes_per_request
    /\ adv_call # None =>
          /\ NonIncreasingScores(adv_result)
          /\ Len(adv_result) <= TheValue(adv_call).num_recommendations

\* more routes were built than were asked for, and the one returned is not the
\* first that was built
C16_Witness ==
    /\ adv_call # None
    /\ Len(adv_combinations) > TheValue(adv_call).num_recommendations
    /\ Len(adv_result) = TheValue(adv_call).num_recommendations
    /\ adv_result[1].segments # adv_combinations[1].segments
    /\ adv_result[1].score > 0

\* C17: when a catalog city W has dist(A,W) + dist(W,B) = 1.2 * dist(A,B) for
\* the origin A and the destination B of a call without budget and duration,
\* the call returns a with_stops candidate whose intermediate city is W.
C17_WaypointAtDetourRatio ==
    rr_call # None =>
        LET c == TheValue(rr_call)
        IN  ( /\ NameInCatalog(c.origin) /\ NameInCatalog(c.destination)
              /\ c.budget = None /\ c.duration_days = None )
            => \A i \in 1..Len(cities_data) :
                   LET ratio == DetourRatio(cities_data[i], CoordinatesOf(c.origin),
                                            CoordinatesOf(c.destination))
                   IN  (ratio[2] > 0 /\ 10 * ratio[1] = 12 * ratio[2])
                       => \E k \in 1..Len(rr_result) :
                              /\ rr_result[k].type = "with_stops"
                              /\ rr_result[k].intermediate_city
                                     = Some(cities_data[i].name)

\* the preferences with every weight multiplied by factor
ScaledPreferences(preferences, factor) ==
    [key \in DOMAIN preferences |-> factor * preferences[key]]

\* C18: multiplying every weight of the preferences by the same positive constant
\* leaves the score get_route_score gives a route unchanged.
C18_ScoreScaleInvariant ==
    rr_call # None =>
        \A k \in 1..Len(rr_sorted), factor \in {2, 3} :
            get_route_score(rr_sorted[k],
                            ScaledPreferences(TheValue(rr_call).preferences, factor))
                = rr_sorted[k].score

\* the rule-based score of _calculate_route_score, in 1e-7: the composite times
\* the seasonal factor times the preference factor, capped at 5
RuleBasedScore(route, user_preferences, month) ==
    Min(BlendedScore(route, user_preferences, None, month), 50000000)

\* the prediction step of _get_ml_score raises
PredictionThrows(model) ==
    model # None /\ TheValue(model).scaler_features # PredictionFeatures

\* C19: when there is no learned model or its prediction step raises, the score
\* of a route is exactly its rule-based score, with no blended term.
C19_ScorerUnavailable ==
    (adv_call # None /\ (ml_model = None \/ PredictionThrows(ml_model))) =>
        \A k \in 1..Len(adv_result) :
            ~ScenicFails(adv_result[k]) =>
                adv_result[k].score
                    = RuleBasedScore(adv_result[k],
                                     TheValue(adv_call).user_preferences,
                                     TheValue(adv_call).month)

\* a score of 1e-7 units clipped to [0, 5]
ClipScore(score) == Max(0, Min(50000000, score))

\* 0.7 * r + 0.3 * m capped at 5, for a rule-based score r and a prediction m
BlendOf(r, m) == Min((r * 7) \div 10 + (m * 3) \div 10, 50000000)

\* C20: with a learned model set, the score of a route is 0.7 * r + 0.3 * m capped
\* at 5, for r the rule-based score clipped to [0, 5] and m the prediction of the
\* model clipped to [0, 5].
C20_BlendOfClippedScores ==
    (adv_call # None /\ ml_model # None) =>
        \A k \in 1..Len(adv_result) :
            ~ScenicFails(adv_result[k]) =>
                adv_result[k].score
                    = BlendOf(ClipScore(BlendedScore(adv_result[k],
                                            TheValue(adv_call).user_preferences,
                                            None, TheValue(adv_call).month)),
                              ClipScore(TheValue(ml_model).prediction * 1000000))

\* the detour of the waypoint at `place` on the journey of the last call, as the
\* pair <<dist(origin, L) + dist(L, destination), D>>
DetourOf(place) ==
    LET c == TheValue(rr_call)
        o == CoordinatesOf(c.origin)
        d == CoordinatesOf(c.destination)
    IN  << calculate_distance(o[1], o[2], place[1], place[2])
             + calculate_distance(place[1], place[2], d[1], d[2]),
           calculate_distance(o[1], o[2], d[1], d[2]) >>

\* the three tests on the catalog city i, for the journey of the last call
PassesThreeTests(i) ==
    LET c == TheValue(rr_call)
        o == CoordinatesOf(c.origin)
        d == CoordinatesOf(c.destination)
        L == cities_data[i]
        D == calculate_distance(o[1], o[2], d[1], d[2])
        from_origin == calculate_distance(o[1], o[2], L.lat, L.lng)
        to_destination == calculate_distance(L.lat, L.lng, d[1], d[2])
    IN  /\ from_origin < D
        /\ to_destination < D
        /\ 2 * (from_origin + to_destination) < 3 * D

\* the last call reached _find_intermediate_cities
ReachedIntermediateSearch ==
    /\ rr_call # None
    /\ Resolved(cities_data, TheValue(rr_call).origin, TheValue(rr_call).destination)

InIntermediate(i) ==
    \E k \in 1..Len(rr_intermediate) : rr_intermediate[k].name = cities_data[i].name

\* C21: _find_intermediate_cities returns a catalog city L exactly when
\* dist(origin, L) < D, dist(L, destination) < D and
\* (dist(origin, L) + dist(L, destination)) / D < 1.5, D the direct distance.
C21_AcceptedIffThreeTests ==
    ReachedIntermediateSearch =>
        /\ \A i \in 1..Len(cities_data) : InIntermediate(i) <=> PassesThreeTests(i)
        /\ \A k \in 1..Len(rr_intermediate) :
              \E i \in 1..Len(cities_data) :
                  rr_intermediate[k].name = cities_data[i].name

\* a search that accepted a city, refused one whose detour ratio is in [1.5, 2)
\* and refused one whose detour ratio is 2 or more
C21_Witness ==
    /\ ReachedIntermediateSearch
    /\ \E i, j, l \in 1..Len(cities_data) :
          LET detour == DetourOf(<<cities_data[j].lat, cities_data[j].lng>>)
              far == DetourOf(<<cities_data[l].lat, cities_data[l].lng>>)
          IN  /\ InIntermediate(i)
              /\ ~InIntermediate(j)
              /\ detour[1] < 2 * detour[2]
              /\ 2 * detour[1] >= 3 * detour[2]
              /\ ~InIntermediate(l)
              /\ far[1] >= 2 * far[2]

\* a with_stops candidate of the last call stops in the catalog city i
Materialized(i) ==
    \E k \in 1..Len(rr_sorted) :
        rr_sorted[k].intermediate_city = Some(cities_data[i].name)

PlaceOf(i) == <<cities_data[i].lat, cities_data[i].lng>>

\* C22: recommend_routes builds waypoint candidates for at most 3 cities, all of
\* them accepted waypoints, as many as there are (up to 3), and no accepted
\* waypoint left out has a detour ratio strictly smaller than a materialized one.
C22_SmallestDetoursMaterialized ==
    ReachedIntermediateSearch =>
        /\ Cardinality({k \in 1..Len(rr_sorted) : rr_sorted[k].type = "with_stops"})
              = Min(3, Len(rr_intermediate))
        /\ \A i \in 1..Len(cities_data) : Materialized(i) => InIntermediate(i)
        /\ \A i, j \in 1..Len(cities_data) :
              (InIntermediate(i) /\ ~Materialized(i) /\ Materialized(j))
                  => DetourOf(PlaceOf(i))[1] >= DetourOf(PlaceOf(j))[1]

\* four accepted waypoints; the one left out comes first in the catalog and has a
\* larger detour ratio than a materialized one
C22_Witness ==
    /\ ReachedIntermediateSearch
    /\ Len(rr_intermediate) = 4
    /\ \E i, j \in 1..Len(cities_data) :
          /\ i < j
          /\ InIntermediate(i) /\ ~Materialized(i) /\ Materialized(j)
          /\ DetourOf(PlaceOf(i))[1] > DetourOf(PlaceOf(j))[1]

\* the ceiling of a budget tier
TierCeiling ==
    [low |-> 200000, medium |-> 500000, high |-> 1000000, luxury |-> 2000000]

\* the score of a cost by the share of the ceiling it reaches
TierScore(cost, ceiling) ==
    IF 100 * cost <= 50 * ceiling THEN 5
    ELSE IF 100 * cost <= 80 * ceiling THEN 4
    ELSE IF 100 * cost <= 100 * ceiling THEN 3
    ELSE IF 100 * cost <= 150 * ceiling THEN 2
    ELSE 1

\* C23: for every cost and budget tier _calculate_cost_score is 5 up to 50% of
\* the tier ceiling, 4 up to 80%, 3 up to 100%, 2 up to 150%, else 1, with the
\* ceilings 200,000, 500,000, 1,000,000 and 2,000,000; a higher cost never has a
\* higher score.
C23_CostScoreTiers ==
    adv_call # None =>
        LET tier == TheValue(adv_call).user_preferences.budget_range
        IN  \A k \in 1..Len(adv_combinations) :
                LET cost == adv_combinations[k].total_cost
                IN  /\ tier \in DOMAIN TierCeiling
                        => calculate_cost_score(cost, tier)
                             = TierScore(cost, TierCeiling[tier])
                    /\ \A higher \in CostChoices :
                          higher >= cost
                              => calculate_cost_score(higher, tier)
                                   <= calculate_cost_score(cost, tier)

\* a route scored at exactly 80% of the ceiling of its tier
C23_Witness ==
    /\ adv_call # None
    /\ TheValue(adv_call).user_preferences.budget_range = "high"
    /\ Len(adv_result) = 1
    /\ adv_result[1].total_cost = 800000
    /\ calculate_cost_score(adv_result[1].total_cost, "high") = 4

\* C24: _apply_user_preferences is the product of 0.8 (style budget and cost above
\* 300,000), 0.9 (style luxury and cost below 500,000) and 1.1 (group size above
\* 4), a factor whose condition fails being 1; in hundredths it is one of 100, 80,
\* 90, 110, 88, 99.
C24_PreferenceFactor ==
    adv_call # None =>
        LET p == TheValue(adv_call).user_preferences
        IN  \A k \in 1..Len(adv_combinations) :
                LET route == adv_combinations[k]
                    budget == IF p.travel_style = "budget" /\ route.total_cost > 300000
                              THEN 8 ELSE 10
                    luxury == IF p.travel_style = "luxury" /\ route.total_cost < 500000
                              THEN 9 ELSE 10
                    group == IF p.group_size > 4 THEN 11 ELSE 10
                IN  /\ 10 * apply_user_preferences(route, p) = budget * luxury * group
                    /\ apply_user_preferences(route, p) \in {100, 80, 90, 110, 88, 99}

\* a budget traveller in a group of five on a route costing more than 300,000
C24_Witness ==
    /\ adv_call # None
    /\ TheValue(adv_call).user_preferences.travel_style = "budget"
    /\ TheValue(adv_call).user_preferences.group_size = 5
    /\ Len(adv_result) = 1
    /\ adv_result[1].total_cost = 300001
    /\ apply_user_preferences(adv_result[1], TheValue(adv_call).user_preferences) = 88

\* C25: with an empty preference map every candidate of recommend_routes scores
\* 0 and the list comes back in the order it was generated in: the direct route,
\* then the waypoint candidates by ascending detour ratio.
C25_EmptyPreferencesGenerationOrder ==
    (ReachedIntermediateSearch /\ TheValue(rr_call).preferences = EmptyPreferences) =>
        /\ \A k \in 1..Len(rr_sorted) : rr_sorted[k].score = 0
        /\ Len(rr_result) = 1 + Min(3, Len(rr_intermediate))
        /\ rr_result[1].type = "direct"
        /\ \A k \in 2..Len(rr_result) :
              /\ rr_result[k].type = "with_stops"
              /\ rr_result[k].intermediate_city = Some(rr_intermediate[k - 1].name)
        /\ \A k, l \in 2..Len(rr_result) :
              k < l => DetourOf(CoordinatesOf(TheValue(rr_result[k].intermediate_city)))[1]
                         <= DetourOf(CoordinatesOf(TheValue(rr_result[l].intermediate_city)))[1]

\* an empty preference map, three waypoint candidates of different detour ratios
\* whose cities are in another order in the catalog
C25_Witness ==
    /\ ReachedIntermediateSearch
    /\ TheValue(rr_call).preferences = EmptyPreferences
    /\ Len(rr_result) = 4
    /\ DetourOf(CoordinatesOf(TheValue(rr_result[2].intermediate_city)))[1]
          < DetourOf(CoordinatesOf(TheValue(rr_result[4].intermediate_city)))[1]
    /\ \E i, j \in 1..Len(cities_data) :
          /\ i < j
          /\ rr_result[4].intermediate_city = Some(cities_data[i].name)
          /\ rr_result[2].intermediate_city = Some(cities_data[j].name)

\* C26: when recommender.recommend_routes returns an empty list, POST /recommend
\* and POST /save-route answer with status 404 and detail 'No suitable route found'.
C26_EmptyListIs404 ==
    (http_response # None /\ rr_result = << >>) =>
        TheValue(http_response) = HTTPException(404, "No suitable route found")

\* C27: after any sequence of process_message, submit_user_feedback and
\* clear_chat_history operations the conversation_history of a user's chat
\* context holds at most 10 entries.
C27_HistoryAtMostTen ==
    \A user_id \in DOMAIN chat_contexts :
        Len(chat_contexts[user_id].conversation_history) <= 10

\* C28: for every user_id, as long as a connection accepted for that user has not
\* disconnected, active_connections[user_id] is present and refers to a
\* connection that is still open, also when a second connection of the user is
\* accepted before the first one disconnects.
C28_OpenConnectionRegistered ==
    \A user_id \in UserIds :
        (\E k \in 1..Len(websockets) :
            websockets[k].user_id = user_id /\ websockets[k].state = "open")
        => /\ user_id \in DOMAIN active_connections
           /\ websockets[active_connections[user_id]].state = "open"

\* the conversation_flow of the context of a user, 'initial' for a user whose
\* context is yet to be created
FlowOf(contexts, user_id) ==
    IF user_id \in DOMAIN contexts THEN contexts[user_id].conversation_flow
    ELSE "initial"

\* C29: in every reachable state the conversation_flow of a chat context is one
\* of initial, route_planning, budget_discussion; process_message sets it to
\* route_planning on a route request naming a city, to budget_discussion on a
\* budget request, to initial on a greeting, and leaves it unchanged for every
\* other intent; clear_chat_history sets it to initial.
C29_ConversationFlow ==
    [][/\ \A user_id \in DOMAIN chat_contexts' :
              chat_contexts'[user_id].conversation_flow
                  \in {"initial", "route_planning", "budget_discussion"}
       /\ \A call \in chat_call' :
              LET message == call.argument
                  before == FlowOf(chat_contexts, call.user_id)
                  after == FlowOf(chat_contexts', call.user_id)
              IN  /\ call.op = "process_message" =>
                        /\ call.user_id \in DOMAIN chat_contexts'
                        /\ message.intent = "route_request" /\ message.city > 0
                               => after = "route_planning"
                        /\ message.intent = "budget_request"
                               => after = "budget_discussion"
                        /\ message.intent = "greeting" => after = "initial"
                        /\ (\/ message.intent \notin {"route_request", "budget_request",
                                                       "greeting"}
                            \/ message.intent = "route_request" /\ message.city = 0)
                               => after = before
                  /\ call.op = "clear_chat_history" => after = "initial"]_vars

\* C29: a message of another intent has been processed in a conversation that was
\* in route_planning, and one in budget_discussion whose response failed
C29_Witness ==
    \E call \in chat_call :
        /\ call.op = "process_message"
        /\ \/ /\ call.argument.intent = "unknown"
              /\ chat_contexts[call.user_id].conversation_flow = "route_planning"
           \/ /\ call.argument.intent = "thanks"
              /\ call.returned.intent = "raised"
              /\ chat_contexts[call.user_id].conversation_flow = "budget_discussion"

\* C30: update_user_preferences(u, patch) changes only the stored preferences of
\* user u, keeps the value of every key that is not in the patch, and leaves the
\* context of every other user unchanged; for a user with no context it returns
\* False and changes no state: no context is created.
C30_UpdateChangesOnlyPatchedKeys ==
    [][\A call \in chat_call' :
          call.op = "update_user_preferences" =>
              LET u == call.user_id
                  patch == call.argument
              IN  /\ DOMAIN chat_contexts' = DOMAIN chat_contexts
                  /\ \A other \in DOMAIN chat_contexts \ {u} :
                         chat_contexts'[other] = chat_contexts[other]
                  /\ UNCHANGED <<rr_vars, adv_vars, active_connections, websockets>>
                  /\ IF u \in DOMAIN chat_contexts
                     THEN LET old == chat_contexts[u].user_preferences
                              new == chat_contexts'[u].user_preferences
                          IN  /\ call.returned = TRUE
                              /\ chat_contexts'[u] =
                                    [chat_contexts[u] EXCEPT !.user_preferences = new]
                              /\ \A key \in DOMAIN old \ DOMAIN patch :
                                     key \in DOMAIN new /\ new[key] = old[key]
                     ELSE call.returned = FALSE]_vars

\* C30: a patch has been applied for a user who had stored a key that is not in
\* the patch, while the other user has preferences too
C30_Witness ==
    \E call \in chat_call :
        /\ call.op = "update_user_preferences"
        /\ call.returned = TRUE
        /\ DOMAIN chat_contexts = {"1", "2"}
        /\ DOMAIN chat_contexts[call.user_id].user_preferences
               \ DOMAIN call.argument # {}
        /\ \A user_id \in {"1", "2"} : chat_contexts[user_id].user_preferences # << >>

====
